---------------------------- MODULE Spec2Model ----------------------------
(***************************************************************************)
(* Model of the template deployment orchestrator of clickup-deployer:      *)
(* deployTemplateSmartly and its helpers in src/lib/clickup-api.ts.        *)
(*                                                                         *)
(* One run of deployTemplateSmartly is a sequential async function; the    *)
(* model has one action per stretch of code between two awaits on the      *)
(* remote service.  Every remote call answers nondeterministically (it     *)
(* succeeds, fails, or - for the calls whose handler looks at it - fails   *)
(* with HTTP 429).  `trace` is the chronological list of remote calls and  *)
(* pacing delays the run has issued.                                       *)
(*                                                                         *)
(* Strings whose case or surrounding blanks matter (custom-field names,    *)
(* space/folder/list names) are sequences of one-character strings, so     *)
(* that toLowerCase() and trim() are computed, not assumed.  Absent and    *)
(* empty strings are both falsy in the source and are both <<>> / "".      *)
(***************************************************************************)
EXTENDS Integers, Sequences, FiniteSets, TLC

(***************************************************************************)
(* Bounds of the model.                                                    *)
(***************************************************************************)
\* largest number of fields the destination list carries
MaxFields == 2
\* largest number of items of a checklist in the templates of the model
MaxItems == 2

(***************************************************************************)
(* Program constants.                                                      *)
(***************************************************************************)
\* rateLimitDelay(5000) after an HTTP 429
RateLimitCooldown == 5000
\* rateLimitDelay(200) after every fifth item of a checklist
ChecklistPause == 200
\* rateLimitDelay(300) before a checklist or a watcher update
AttachDelay == 300
\* default of rateLimitDelay's parameter and of options.delayBetweenCalls
DefaultDelay == 500

(***************************************************************************)
(* String helpers.                                                         *)
(***************************************************************************)
LowerChar(c) ==
    CASE c = "D" -> "d"
      [] c = "O" -> "o"
      [] OTHER -> c

\* String.prototype.toLowerCase
ToLowerCase(s) == [i \in DOMAIN s |-> LowerChar(s[i])]

RECURSIVE TrimStart(_)
TrimStart(s) ==
    IF s # <<>> /\ Head(s) = " " THEN TrimStart(Tail(s)) ELSE s

RECURSIVE TrimEnd(_)
TrimEnd(s) ==
    IF s # <<>> /\ s[Len(s)] = " " THEN TrimEnd(SubSeq(s, 1, Len(s) - 1)) ELSE s

\* String.prototype.trim
Trim(s) == TrimEnd(TrimStart(s))

\* name.toLowerCase().trim()
LowerTrim(s) == Trim(ToLowerCase(s))

\* Array.prototype.reverse
Reverse(s) == [i \in 1..Len(s) |-> s[Len(s) + 1 - i]]

\* the elements of a sequence
Range(s) == {s[i] : i \in DOMAIN s}

RECURSIVE Concat(_)
\* flattens a sequence of sequences
Concat(ss) == IF ss = <<>> THEN <<>> ELSE Head(ss) \o Concat(Tail(ss))

RECURSIVE Dedup(_)
\* insertion order of a JavaScript Set fed with the elements of s
Dedup(s) ==
    IF s = <<>> THEN <<>>
    ELSE LET init == Dedup(SubSeq(s, 1, Len(s) - 1))
             last == s[Len(s)]
         IN  IF last \in Range(init) THEN init ELSE Append(init, last)


(***************************************************************************)
(* JavaScript objects used as maps: a sequence of [k, v] entries with      *)
(* distinct keys, in insertion order.  A missing key reads as "" (falsy).  *)
(***************************************************************************)
MapHas(m, key) == \E i \in DOMAIN m : m[i].k = key

MapGet(m, key) ==
    IF MapHas(m, key)
    THEN m[CHOOSE i \in DOMAIN m : m[i].k = key].v
    ELSE ""

MapSet(m, key, val) ==
    IF MapHas(m, key)
    THEN [i \in DOMAIN m |-> IF m[i].k = key THEN [k |-> key, v |-> val] ELSE m[i]]
    ELSE Append(m, [k |-> key, v |-> val])

(***************************************************************************)
(* Templates (TemplateSchema, Phase, Action).  custom_fields holds the     *)
(* keys of the object, checklist is <<>> when absent and <<[items]>> when  *)
(* present, actions of an action are its nested sub-actions,               *)
(* assignee_role is "" when absent.                                        *)
(***************************************************************************)
NoChecklist == <<>>
Checklist(items) == <<[items |-> items]>>

Action(name, cf, cl, w, nested) ==
    [name |-> name, custom_fields |-> cf, checklist |-> cl, watchers |-> w,
     actions |-> nested, assignee_role |-> ""]

Phase(key, cf, acts) ==
    [key |-> key, custom_fields |-> cf, actions |-> acts, assignee_role |-> ""]

\* the same phase or action with an assignee_role
WithRole(item, role) == [item EXCEPT !.assignee_role = role]

Destination(sid, sname, fid, fname, lid, lname) ==
    [space_id |-> sid, space_name |-> sname, folder_id |-> fid,
     folder_name |-> fname, list_id |-> lid, list_name |-> lname]

\* roles_map of the templates: "pm" is a member of the team, "qa" is not
RolesMap == <<[k |-> "pm", v |-> "a@x"], [k |-> "qa", v |-> "q@x"]>>

Template(dest, dcf, phases) ==
    [destination |-> dest, defaults |-> [custom_fields |-> dcf], phases |-> phases,
     roles_map |-> RolesMap]

(***************************************************************************)
(* validateCustomFields.                                                   *)
(***************************************************************************)
RECURSIVE BuildFieldMap(_)
\* fieldMap[field.name] = field.id for each existing field, in order
BuildFieldMap(existing) ==
    IF existing = <<>> THEN <<>>
    ELSE LET f == existing[Len(existing)]
         IN  MapSet(BuildFieldMap(SubSeq(existing, 1, Len(existing) - 1)), f.name, f.id)

RECURSIVE BuildFieldMapLower(_)
\* fieldMapLower[field.name.toLowerCase().trim()] = field.id
BuildFieldMapLower(existing) ==
    IF existing = <<>> THEN <<>>
    ELSE LET f == existing[Len(existing)]
         IN  MapSet(BuildFieldMapLower(SubSeq(existing, 1, Len(existing) - 1)),
                    LowerTrim(f.name), f.id)

\* the names an action and its nested sub-actions add to requiredFields
ActionFieldNames(action) ==
    action.custom_fields
      \o Concat([j \in DOMAIN action.actions |-> action.actions[j].custom_fields])

PhaseFieldNames(phase) ==
    phase.custom_fields
      \o Concat([j \in DOMAIN phase.actions |-> ActionFieldNames(phase.actions[j])])

\* requiredFields: defaults, then each phase, its actions and their sub-actions
RequiredFields(tpl) ==
    Dedup(tpl.defaults.custom_fields
            \o Concat([p \in DOMAIN tpl.phases |-> PhaseFieldNames(tpl.phases[p])]))

\* faulty variant, for comparison: the case-insensitive match is tried before the exact one
MatchFieldIdLooseFirst(fieldMap, fieldMapLower, fieldName) ==
    IF MapGet(fieldMapLower, LowerTrim(fieldName)) # ""
    THEN MapGet(fieldMapLower, LowerTrim(fieldName))
    ELSE MapGet(fieldMap, fieldName)

\* exact match first, then case-insensitive; "" when neither matches
MatchFieldId(fieldMap, fieldMapLower, fieldName) ==
    IF MapGet(fieldMap, fieldName) # ""
    THEN MapGet(fieldMap, fieldName)
    ELSE MapGet(fieldMapLower, LowerTrim(fieldName))

RECURSIVE MatchFields(_, _, _)
\* the requiredFields.forEach loop
MatchFields(required, fieldMap, fieldMapLower) ==
    IF required = <<>> THEN [fieldMap |-> <<>>, missingFields |-> <<>>]
    ELSE LET before == MatchFields(SubSeq(required, 1, Len(required) - 1),
                                   fieldMap, fieldMapLower)
             fieldName == required[Len(required)]
             id == MatchFieldId(fieldMap, fieldMapLower, fieldName)
         IN  IF id # ""
             THEN [before EXCEPT !.fieldMap = MapSet(@, fieldName, id)]
             ELSE [before EXCEPT !.missingFields = Append(@, fieldName)]

ValidateCustomFields(existing, tpl) ==
    MatchFields(RequiredFields(tpl), BuildFieldMap(existing), BuildFieldMapLower(existing))

(***************************************************************************)
(* The remote workspace the runs of the model talk to, and the inputs of   *)
(* the model.                                                              *)
(***************************************************************************)
NameD == <<"D">>
NameLowerD == <<"d">>
NameBlankD == <<" ", "d">>
NameX == <<"x">>

\* the custom-field names templates and destination lists use in the model
FieldNames == {NameD, NameLowerD, NameBlankD, NameX}

\* spaces of the first team, folders of a space, lists of a folder or space
RemoteSpaces == <<[name |-> <<"O", "p">>, id |-> "s1"]>>
RemoteFolders(spaceId) ==
    IF spaceId = "s1" THEN <<[name |-> <<"D", "o">>, id |-> "f1"]>> ELSE <<>>
RemoteLists(parentId) ==
    CASE parentId = "f1" -> <<[name |-> <<"o", "D">>, id |-> "l1"]>>
      [] parentId = "s1" -> <<[name |-> <<"O">>, id |-> "l2"]>>
      [] OTHER -> <<>>

\* members of the first team: email -> user id
TeamUserMap == <<[k |-> "a@x", v |-> "11"]>>

\* parseInt of a user id
ParseInt(id) == CASE id = "11" -> 11 [] OTHER -> 0

ItemName(i) == <<"item", i>>
Items(n) == [i \in 1..n |-> ItemName(i)]

Plain(name) == Action(name, <<>>, NoChecklist, <<>>, <<>>)

\* no phases
TplEmpty(dest) == Template(dest, <<NameD>>, <<>>)

\* one phase, one action with a checklist
TplScenario(dest) ==
    Template(dest, <<NameD>>,
      << Phase("p1", <<>>, << Action("Step 1", <<>>, Checklist(Items(MaxItems)), <<>>, <<>>) >>) >>)

\* one phase; an action with watchers, a checklist and two sub-actions, the
\* first of which has a checklist, watchers and a nested action of its own
TplNested(dest) ==
    Template(dest, <<>>,
      << Phase("p1", <<NameD>>,
           << Action("A1", <<>>, Checklist(Items(1)), <<"a@x", "z@x">>,
                << Action("S1", <<>>, Checklist(Items(1)), <<"a@x">>, << Plain("SS1") >>),
                   WithRole(Action("S2", <<>>, NoChecklist, <<"z@x">>, <<>>), "qa") >>),
              Plain("A2") >>) >>)

\* two phases; the second action of the first phase has an empty checklist;
\* role "pm" resolves, "qa" maps to somebody outside the team, "ghost" is
\* not in roles_map
TplTwoPhases(dest) ==
    Template(dest, <<>>,
      << Phase("p1", <<>>,
           << WithRole(Plain("A1"), "pm"),
              Action("A2", <<NameD>>, Checklist(<<>>), <<"z@x">>, <<>>),
              WithRole(Plain("A3"), "qa") >>),
         WithRole(Phase("p2", <<>>, << Plain("B1") >>), "ghost") >>)

NoName == <<>>
DestList == Destination("", NoName, "", NoName, "l1", NoName)
DestNone == Destination("", NoName, "", NoName, "", NoName)
DestSpace == Destination("s1", NoName, "", NoName, "", NoName)
DestFolder == Destination("", NoName, "f1", NoName, "", NoName)
DestNames == Destination("", <<"o", "p">>, "", <<"d", "o">>, "", <<"O", "d">>)
DestBadSpace == Destination("", <<"x">>, "", NoName, "", NoName)
DestBadFolder == Destination("s1", NoName, "", <<"x">>, "", NoName)
DestBadList == Destination("s1", NoName, "", NoName, "", <<"x">>)
DestSpaceList == Destination("", <<"O", "P">>, "", NoName, "", <<"o">>)
DestFolderNameOnly == Destination("", NoName, "", <<"d", "o">>, "", NoName)
DestListNameOnly == Destination("", NoName, "", NoName, "", <<"o">>)
DestSpaceName == Destination("", <<"o", "p">>, "", NoName, "", NoName)

Destinations ==
    {DestList, DestNone, DestSpace, DestFolder, DestNames, DestBadSpace,
     DestBadFolder, DestBadList, DestSpaceList, DestFolderNameOnly,
     DestListNameOnly, DestSpaceName}

\* the templates of the model: every destination with the two small
\* templates, the two large templates with a list given by ID
Templates ==
    {TplEmpty(d) : d \in Destinations} \cup {TplScenario(d) : d \in Destinations}
      \cup {TplNested(DestList), TplTwoPhases(DestList)}

\* the custom fields of the destination list
ExistingFieldChoices == {<<>>, <<[name |-> NameLowerD, id |-> "cf1"]>>}

\* a JavaScript value of type number | undefined
Num(n) == [kind |-> "number", value |-> n]
NaN == [kind |-> "NaN", value |-> 0]
NumUndefined == [kind |-> "undefined", value |-> 0]

Options ==
    [stopOnMissingFields : BOOLEAN, createNewListIfNeeded : BOOLEAN,
     enableRollback : BOOLEAN, delayBetweenCalls : {Num(DefaultDelay)}]

(***************************************************************************)
(* State.                                                                  *)
(***************************************************************************)
VARIABLES
    template,        \* the template object handed to deployTemplateSmartly
    options,         \* the options object
    existingFields,  \* remote: the custom fields of the destination list
    pc,              \* position of the run in deployTemplateSmartly
    err,             \* the error being thrown, <<>> when none
    result,          \* the DeploymentResult under construction
    createdTaskIds,  \* IDs recorded for rollback
    targetListId,    \* the list tasks are created in
    fieldValidation, \* result of validateCustomFields
    userMap,         \* result of getTeamUserMap
    loop,            \* indexes and tasks of the phase/action/sub-action loops
    cl,              \* createChecklist in progress
    rb,              \* rollback in progress
    nl,              \* createNewList in progress
    trace,           \* remote calls and delays issued so far, in order
    nextId,          \* remote: the next task or checklist ID to hand out
    visited,         \* steps of the run reached so far
    anyFailed,       \* whether some remote call of the run has failed
    history,         \* the earlier runs on the same template object: result and trace
    console,         \* the functions installed as console.log / .error / .warn
    req,             \* the requests of the deploy endpoint, each with its LogCapture
    call             \* a call of a synchronous function: name, argument, return value

vars ==
    <<template, options, existingFields, pc, err, result, createdTaskIds,
      targetListId, fieldValidation, userMap, loop, cl, rb, nl, trace, nextId,
      visited, anyFailed, history, console, req, call>>

\* what lives outside one call of deployTemplateSmartly
outside == <<history, console, req, call>>

\* no synchronous function under study
NoCall == [fn |-> "", arg |-> <<>>, ret |-> <<>>]

\* the variables of one call of deployTemplateSmartly
inside ==
    <<template, options, existingFields, pc, err, result, createdTaskIds,
      targetListId, fieldValidation, userMap, loop, cl, rb, nl, trace, nextId,
      visited, anyFailed>>

(***************************************************************************)
(* The console functions and the requests of the deploy endpoint           *)
(* (src/unnamed/part_001).  console.log, console.error and console.warn    *)
(* are always replaced and restored together, so one value stands for the  *)
(* three: the function of the runtime, the wrapper installed by the        *)
(* LogCapture of a request, or undefined.                                  *)
(***************************************************************************)
\* concurrent requests of the endpoint
MaxRequests == 2
\* console lines written by one deployment
MaxLines == 2

Requests == 1..MaxRequests

Native == [fn |-> "native", of |-> 0]
Undefined == [fn |-> "undefined", of |-> 0]
Wrapper(r) == [fn |-> "capture", of |-> r]

\* no response yet
NoResponse == <<>>

\* a request that has not arrived: its LogCapture has logs = [] and the
\* fields originalLog, originalError, originalWarn undefined
NewRequest ==
    [pc |-> "idle", logs |-> <<>>, original |-> Undefined, emitted |-> 0,
     report |-> FALSE, met |-> {}, response |-> NoResponse]

NoRequests == [r \in Requests |-> NewRequest]

EmptyResult ==
    [success |-> FALSE, mode |-> "existing_list", listId |-> "", phases |-> <<>>,
     actions |-> <<>>, checklists |-> <<>>, errors |-> <<>>, warnings |-> <<>>,
     message |-> "", missingFields |-> <<>>, fieldMapping |-> <<>>]

NoLoop == [pi |-> 0, ai |-> 0, si |-> 0, phaseTask |-> 0, actionTask |-> 0, subTask |-> 0]
NoCl == [ctx |-> "", task |-> 0, id |-> 0, items |-> <<>>, i |-> 0]
NoRb == [ret |-> "", i |-> 0, deletedCount |-> 0, runs |-> 0]
NoNl == [folder |-> "", list |-> "", i |-> 0]

\* the locals of a fresh call of deployTemplateSmartly
Fresh ==
    /\ pc = "validating_connection"
    /\ err = <<>>
    /\ result = EmptyResult
    /\ createdTaskIds = <<>>
    /\ targetListId = ""
    /\ fieldValidation = [fieldMap |-> <<>>, missingFields |-> <<>>]
    /\ userMap = <<>>
    /\ loop = NoLoop
    /\ cl = NoCl
    /\ rb = NoRb
    /\ nl = NoNl
    /\ trace = <<>>
    /\ nextId = 1
    /\ visited = {"validating_connection"}
    /\ anyFailed = FALSE

Init ==
    /\ template \in Templates
    /\ options \in Options
    /\ existingFields \in ExistingFieldChoices
    /\ Fresh
    /\ history = <<>>
    /\ console = Native
    /\ req = NoRequests
    /\ call = NoCall

(***************************************************************************)
(* Entries of the trace.                                                   *)
(***************************************************************************)
Call(op, target) == [op |-> op, target |-> target]
Delay(ms) == [op |-> "delay", ms |-> ms]
CreateTaskCall(listId, item, parent, outcome, id, assignees) ==
    [op |-> "createTask", target |-> listId, item |-> item, parent |-> parent,
     outcome |-> outcome, id |-> id, assignees |-> assignees]

\* POST /folder/{id}/list, /space/{id}/list or /space/{id}/folder: whether
\* the payload carries the three statuses, and the answer
ListCall(op, target, statuses, outcome) ==
    [op |-> op, target |-> target, statuses |-> statuses, outcome |-> outcome]

\* a line written to the console (console.log, console.warn, console.error)
Log(level, text) == [op |-> "console", level |-> level, text |-> text]

\* an Error thrown by the code itself or a failed request (error.response.status)
Error(status, message) == <<[status |-> status, message |-> message]>>

Go(step) == pc' = step /\ visited' = visited \cup {step}

\* faulty variant, for comparison: the error leaves the function
ThrowUncaught(e) == Go("rejected") /\ err' = e

\* an error thrown inside the outer try block lands in its catch
Throw(e) == Go("outer_catch") /\ err' = e

\* find(x => x.name.toLowerCase() === name.toLowerCase()): the ID, "" when none
FindByName(children, name) ==
    LET hits == {i \in DOMAIN children : ToLowerCase(children[i].name) = ToLowerCase(name)}
    IN  IF hits = {} THEN ""
        ELSE children[CHOOSE i \in hits : \A j \in hits : i <= j].id

(***************************************************************************)
(* Step 1: validate the API connection (GET /user).                        *)
(***************************************************************************)
ValidateConnection ==
    /\ pc = "validating_connection"
    /\ trace' = Append(trace, Call("get", "user"))
    /\ \E outcome \in {"ok", "err"} :
         /\ anyFailed' = (anyFailed \/ outcome # "ok")
         /\ IF outcome = "ok"
            THEN Go("resolve_space") /\ err' = err
            ELSE Throw(Error("err", "connection"))
    /\ UNCHANGED <<template, options, existingFields, result, createdTaskIds,
                   targetListId, fieldValidation, userMap, loop, cl, rb, nl, nextId>>
    /\ UNCHANGED outside

(***************************************************************************)
(* Step 1.5: resolve names to IDs.                                         *)
(***************************************************************************)
ResolveSpace ==
    /\ pc = "resolve_space"
    /\ IF template.destination.space_name # NoName /\ template.destination.space_id = ""
       THEN \E outcome \in {"ok", "team_err", "spaces_err"} :
              LET found == FindByName(RemoteSpaces, template.destination.space_name)
              IN  /\ anyFailed' = (anyFailed \/ outcome # "ok")
                  /\ trace' = IF outcome = "team_err"
                              THEN Append(trace, Call("get", "team"))
                              ELSE trace \o <<Call("get", "team"), Call("get", "spaces")>>
                  /\ IF outcome = "ok" /\ found # ""
                     THEN /\ template' = [template EXCEPT !.destination.space_id = found]
                          /\ Go("resolve_folder")
                          /\ err' = err
                     ELSE /\ template' = template
                          /\ Throw(Error(IF outcome = "ok" THEN "none" ELSE "err",
                                         "space not resolved"))
       ELSE Go("resolve_folder") /\ UNCHANGED <<template, err, trace, anyFailed>>
    /\ UNCHANGED <<options, existingFields, result, createdTaskIds, targetListId,
                   fieldValidation, userMap, loop, cl, rb, nl, nextId>>
    /\ UNCHANGED outside

ResolveFolder ==
    /\ pc = "resolve_folder"
    /\ IF template.destination.folder_name # NoName /\ template.destination.folder_id = ""
       THEN IF template.destination.space_id = ""
            THEN /\ Throw(Error("none", "folder not resolved"))
                 /\ UNCHANGED <<template, trace, anyFailed>>
            ELSE \E outcome \in {"ok", "err"} :
                   LET found == FindByName(RemoteFolders(template.destination.space_id),
                                           template.destination.folder_name)
                   IN  /\ anyFailed' = (anyFailed \/ outcome # "ok")
                       /\ trace' = Append(trace, Call("get", "folders"))
                       /\ IF outcome = "ok" /\ found # ""
                          THEN /\ template' = [template EXCEPT !.destination.folder_id = found]
                               /\ Go("resolve_list")
                               /\ err' = err
                          ELSE /\ template' = template
                               /\ Throw(Error(IF outcome = "ok" THEN "none" ELSE "err",
                                              "folder not resolved"))
       ELSE Go("resolve_list") /\ UNCHANGED <<template, err, trace, anyFailed>>
    /\ UNCHANGED <<options, existingFields, result, createdTaskIds, targetListId,
                   fieldValidation, userMap, loop, cl, rb, nl, nextId>>
    /\ UNCHANGED outside

ResolveList ==
    /\ pc = "resolve_list"
    /\ IF template.destination.list_name # NoName /\ template.destination.list_id = ""
       THEN LET parentId == IF template.destination.folder_id # ""
                            THEN template.destination.folder_id
                            ELSE template.destination.space_id
            IN  IF parentId = ""
                THEN /\ Throw(Error("none", "list not resolved"))
                     /\ UNCHANGED <<template, trace, anyFailed>>
                ELSE \E outcome \in {"ok", "err"} :
                       LET found == FindByName(RemoteLists(parentId),
                                               template.destination.list_name)
                       IN  /\ anyFailed' = (anyFailed \/ outcome # "ok")
                           /\ trace' = Append(trace, Call("get", "lists"))
                           /\ IF outcome = "ok" /\ found # ""
                              THEN /\ template' = [template EXCEPT !.destination.list_id = found]
                                   /\ Go("determine_target")
                                   /\ err' = err
                              ELSE /\ template' = template
                                   /\ Throw(Error(IF outcome = "ok" THEN "none" ELSE "err",
                                                  "list not resolved"))
       ELSE Go("determine_target") /\ UNCHANGED <<template, err, trace, anyFailed>>
    /\ UNCHANGED <<options, existingFields, result, createdTaskIds, targetListId,
                   fieldValidation, userMap, loop, cl, rb, nl, nextId>>
    /\ UNCHANGED outside

(***************************************************************************)
(* Step 2: determine the target list.                                      *)
(***************************************************************************)
DetermineTarget ==
    /\ pc = "determine_target"
    /\ IF template.destination.list_id = ""
       THEN IF template.destination.folder_id # "" \/ template.destination.space_id # ""
            THEN IF options.createNewListIfNeeded
                 THEN Go("new_list") /\ err' = err
                 ELSE Throw(Error("none", "no list_id and createNewListIfNeeded is false"))
            ELSE Throw(Error("none", "no destination"))
       ELSE Go("validating_fields") /\ err' = err
    /\ targetListId' = template.destination.list_id
    /\ result' = [result EXCEPT !.listId =
                    IF template.destination.list_id = "" THEN @ ELSE template.destination.list_id]
    /\ UNCHANGED <<template, options, existingFields, createdTaskIds, fieldValidation,
                   userMap, loop, cl, rb, nl, trace, nextId, anyFailed>>
    /\ UNCHANGED outside

(***************************************************************************)
(* createNewList.  The remote names a new folder "nf1" and a new list      *)
(* "nl1".  The final else of createNewList (neither folder_id nor          *)
(* space_id) cannot be reached from its only call.                         *)
(***************************************************************************)
\* faulty variant, for comparison: the caller leaves result.mode alone
NewListKeepsMode(listId) ==
    /\ targetListId' = listId
    /\ result' = [result EXCEPT !.warnings = Append(@, "New list created"), !.listId = listId]
    /\ Go("validating_fields")
    /\ err' = err

\* return response.data.id, then result.mode and the warning of the caller
NewListReturns(listId) ==
    /\ targetListId' = listId
    /\ result' = [result EXCEPT
                    !.mode = "new_list",
                    !.warnings = Append(@, "New list created"),
                    !.listId = listId]
    /\ Go("validating_fields")
    /\ err' = err

\* the first POST: the list with its three statuses, in the folder or the space
NewListCreate ==
    /\ pc = "new_list"
    /\ \E outcome \in {"ok", "err", "SUBCAT_114"} :
         /\ anyFailed' = (anyFailed \/ outcome # "ok")
         /\ trace' = Append(trace, ListCall("createList",
                   IF template.destination.folder_id # ""
                   THEN template.destination.folder_id
                   ELSE template.destination.space_id, TRUE, outcome))
         /\ CASE outcome = "ok" ->
                NewListReturns("nl1") /\ nl' = nl
           [] outcome # "ok" /\ template.destination.folder_id # "" ->
                /\ nl' = [nl EXCEPT !.folder = template.destination.folder_id]
                /\ Go("nl_simple")
                /\ UNCHANGED <<targetListId, result, err>>
           [] outcome = "SUBCAT_114" /\ template.destination.folder_id = "" ->
                /\ Go("nl_folder")
                /\ UNCHANGED <<targetListId, result, err, nl>>
           [] outcome = "err" /\ template.destination.folder_id = "" ->
                /\ Throw(Error("err", "list not created"))
                /\ UNCHANGED <<targetListId, result, nl>>
    /\ UNCHANGED <<template, options, existingFields, createdTaskIds, fieldValidation,
                   userMap, loop, cl, rb, nextId>>
    /\ UNCHANGED outside

\* the space requires a folder: create one
NewListFolder ==
    /\ pc = "nl_folder"
    /\ \E outcome \in {"ok", "err"} :
         /\ anyFailed' = (anyFailed \/ outcome # "ok")
         /\ trace' = Append(trace, ListCall("createFolder", template.destination.space_id,
                                            FALSE, outcome))
         /\ IF outcome = "ok"
            THEN /\ nl' = [nl EXCEPT !.folder = "nf1"]
                 /\ Go("nl_folder_list")
                 /\ err' = err
            ELSE /\ Throw(Error("err", "folder not created"))
                 /\ nl' = nl
    /\ UNCHANGED <<template, options, existingFields, result, createdTaskIds,
                   targetListId, fieldValidation, userMap, loop, cl, rb, nextId>>
    /\ UNCHANGED outside

\* the list with its three statuses, in the folder just created
NewListInFolder ==
    /\ pc = "nl_folder_list"
    /\ \E outcome \in {"ok", "err"} :
         /\ anyFailed' = (anyFailed \/ outcome # "ok")
         /\ trace' = Append(trace, ListCall("createList", nl.folder, TRUE, outcome))
         /\ IF outcome = "ok"
            THEN NewListReturns("nl1")
            ELSE Go("nl_simple") /\ UNCHANGED <<targetListId, result, err>>
    /\ UNCHANGED <<template, options, existingFields, createdTaskIds, fieldValidation,
                   userMap, loop, cl, rb, nl, nextId>>
    /\ UNCHANGED outside

\* the list without statuses
NewListSimple ==
    /\ pc = "nl_simple"
    /\ \E outcome \in {"ok", "err"} :
         /\ anyFailed' = (anyFailed \/ outcome # "ok")
         /\ trace' = Append(trace, ListCall("createList", nl.folder, FALSE, outcome))
         /\ IF outcome = "ok"
            THEN /\ nl' = [nl EXCEPT !.list = "nl1", !.i = 1]
                 /\ Go("nl_status")
                 /\ err' = err
            ELSE /\ Throw(Error("err", "list not created"))
                 /\ nl' = nl
    /\ UNCHANGED <<template, options, existingFields, result, createdTaskIds,
                   targetListId, fieldValidation, userMap, loop, cl, rb, nextId>>
    /\ UNCHANGED outside

StatusNames == <<"to do", "in progress", "complete">>

\* one of the three status POSTs, all inside one try block
NewListStatus ==
    /\ pc = "nl_status"
    /\ \E outcome \in {"ok", "err"} :
         /\ anyFailed' = (anyFailed \/ outcome # "ok")
         /\ trace' = trace \o <<[op |-> "addStatus", target |-> nl.list,
                                  status |-> StatusNames[nl.i], outcome |-> outcome]>>
                           \o (IF outcome = "ok" THEN <<>>
                               ELSE <<Log("error", "Failed to add statuses")>>)
         /\ IF outcome = "ok" /\ nl.i < Len(StatusNames)
            THEN /\ nl' = [nl EXCEPT !.i = @ + 1]
                 /\ UNCHANGED <<pc, visited, targetListId, result, err>>
            ELSE /\ NewListReturns(nl.list)
                 /\ nl' = nl
    /\ UNCHANGED <<template, options, existingFields, createdTaskIds, fieldValidation,
                   userMap, loop, cl, rb, nextId>>
    /\ UNCHANGED outside

(***************************************************************************)
(* Step 3: get and validate the custom fields.                             *)
(***************************************************************************)
\* faulty variant, for comparison: the run never stops on missing fields
StopsOnMissingNever(fv) == FALSE

\* CASE 2 of the source: missing fields and options.stopOnMissingFields
StopsOnMissing(fv) == fv.missingFields # <<>> /\ options.stopOnMissingFields

ValidateFields ==
    /\ pc = "validating_fields"
    /\ trace' = Append(trace, Call("get", "fields"))
    /\ \E outcome \in {"ok", "err"} :
         /\ anyFailed' = (anyFailed \/ outcome # "ok")
         /\ IF outcome = "err"
            THEN /\ Throw(Error("err", "fields not read"))
                 /\ UNCHANGED <<result, fieldValidation>>
            ELSE LET fv == ValidateCustomFields(existingFields, template)
                     r1 == [result EXCEPT !.fieldMapping = fv.fieldMap]
                     r2 == IF fv.missingFields # <<>>
                           THEN [r1 EXCEPT !.missingFields = fv.missingFields]
                           ELSE r1
                 IN  /\ fieldValidation' = fv
                     /\ err' = err
                     /\ IF StopsOnMissing(fv)
                        THEN /\ result' = [r2 EXCEPT
                                  !.success = FALSE,
                                  !.message = "STOPPED: Missing custom fields",
                                  !.errors = @ \o << [kind |-> "missing", fields |-> fv.missingFields],
                                                     [kind |-> "hint", text |-> "To fix"],
                                                     [kind |-> "hint", text |-> "Then run again"] >>]
                             /\ Go("done")
                        ELSE /\ result' =
                                  IF fv.missingFields # <<>>
                                  THEN [r2 EXCEPT !.warnings = Append(@, "Continuing without fields")]
                                  ELSE r2
                             /\ Go("ensuring_access")
    /\ UNCHANGED <<template, options, existingFields, createdTaskIds, targetListId,
                   userMap, loop, cl, rb, nl, nextId>>
    /\ UNCHANGED outside

(***************************************************************************)
(* Step 3.5: ensureAllUsersHaveAccess.  Its requests sit in one try block  *)
(* whose catch only logs.                                                  *)
(***************************************************************************)
\* the emails of the template: roles_map, watchers of actions and sub-actions
AllEmails(tpl) ==
    {tpl.roles_map[i].v : i \in DOMAIN tpl.roles_map}
      \cup UNION {UNION {Range(tpl.phases[p].actions[a].watchers)
                           \cup UNION {Range(tpl.phases[p].actions[a].actions[k].watchers) :
                                         k \in DOMAIN tpl.phases[p].actions[a].actions} :
                         a \in DOMAIN tpl.phases[p].actions} :
                  p \in DOMAIN tpl.phases}

\* missingUsers.length > 0: console.warn, nothing else
MissingUsersLog(tpl) ==
    IF \E email \in AllEmails(tpl) : ~MapHas(TeamUserMap, email)
    THEN <<Log("warn", "Users not in workspace")>>
    ELSE <<>>

EnsureAccess ==
    /\ pc = "ensuring_access"
    /\ \E outcome \in {"ok", "team_err", "member_err"} :
         /\ anyFailed' = (anyFailed \/ outcome # "ok")
         /\ trace' = trace \o
            (CASE outcome = "team_err" ->
                    <<Call("get", "team"), Log("error", "Error checking access")>>
               [] outcome = "member_err" ->
                    <<Call("get", "team"), Call("get", "team members")>>
                      \o MissingUsersLog(template)
                      \o <<Call("get", "list members"), Log("error", "Error checking access")>>
               [] outcome = "ok" ->
                    <<Call("get", "team"), Call("get", "team members")>>
                      \o MissingUsersLog(template)
                      \o <<Call("get", "list members")>>)
    /\ Go("mapping_roles")
    /\ UNCHANGED <<template, options, existingFields, err, result, createdTaskIds,
                   targetListId, fieldValidation, userMap, loop, cl, rb, nl, nextId>>
    /\ UNCHANGED outside

(***************************************************************************)
(* Step 4: getTeamUserMap.  A failure leaves the map empty.                *)
(***************************************************************************)
MapRoles ==
    /\ pc = "mapping_roles"
    /\ trace' = trace \o <<Call("get", "team"), Call("get", "team members")>>
    /\ \E outcome \in {"ok", "err"} :
         /\ anyFailed' = (anyFailed \/ outcome # "ok")
         /\ userMap' = IF outcome = "ok" THEN TeamUserMap ELSE <<>>
    /\ Go("phase_loop")
    /\ loop' = [NoLoop EXCEPT !.pi = 1]
    /\ UNCHANGED <<template, options, existingFields, err, result, createdTaskIds,
                   targetListId, fieldValidation, cl, rb, nl, nextId>>
    /\ UNCHANGED outside

(***************************************************************************)
(* Step 5: the phase, action and sub-action loops.  loop.pi, loop.ai and   *)
(* loop.si are the positions of the three for-of loops; the operators      *)
(* below compute where the run goes once a piece of the loop body is over. *)
(***************************************************************************)
CurPhase(l) == template.phases[l.pi]
CurAction(l) == CurPhase(l).actions[l.ai]
CurSub(l) == CurAction(l).actions[l.si]

\* Math.floor(x / k): undefined / k is NaN, and so is its floor
FloorDiv(x, k) == IF x.kind = "number" THEN Num(x.value \div k) ELSE NaN

\* the default of rateLimitDelay's parameter replaces undefined, and only that
RateLimitMs(ms) == IF ms.kind = "undefined" THEN Num(DefaultDelay) ELSE ms

\* the time setTimeout(resolve, ms) waits: a NaN delay fires without waiting
TimerMs(ms) == IF ms.kind = "number" THEN ms.value ELSE 0

\* rateLimitDelay(d), rateLimitDelay(Math.floor(d / 2)), rateLimitDelay(Math.floor(d / 3))
PhaseDelayOf(d) == TimerMs(RateLimitMs(d))
ActionDelayOf(d) == TimerMs(RateLimitMs(FloorDiv(d, 2)))
SubDelayOf(d) == TimerMs(RateLimitMs(FloorDiv(d, 3)))

PhaseDelay == PhaseDelayOf(options.delayBetweenCalls)
ActionDelay == ActionDelayOf(options.delayBetweenCalls)
SubDelay == SubDelayOf(options.delayBetweenCalls)

\* faulty variant, for comparison: every email is sent, found or not
WatcherIdsUnfiltered(emails, umap) ==
    [k \in DOMAIN emails |-> ParseInt(MapGet(umap, emails[k]))]

\* the watcher IDs built from a list of emails: the emails found in userMap
RECURSIVE WatcherIds(_, _)
WatcherIds(emails, umap) ==
    IF emails = <<>> THEN <<>>
    ELSE LET id == MapGet(umap, Head(emails))
         IN  (IF id # "" THEN <<ParseInt(id)>> ELSE <<>>) \o WatcherIds(Tail(emails), umap)

HasChecklist(action) ==
    action.checklist # NoChecklist /\ Len(action.checklist[1].items) > 0

\* resolveAssignees: role -> email (roles_map) -> user ID (userMap)
ResolveAssignees(role, rolesMap, umap) ==
    IF role = "" \/ MapGet(rolesMap, role) = "" THEN <<>>
    ELSE LET userId == MapGet(umap, MapGet(rolesMap, role))
         IN  IF userId = "" THEN <<>> ELSE <<userId>>

\* what resolveAssignees writes to the console when it returns no assignee
AssigneeLog(role, rolesMap, umap) ==
    IF role = "" \/ MapGet(rolesMap, role) = "" THEN <<Log("log", "No assignee")>>
    ELSE IF MapGet(umap, MapGet(rolesMap, role)) = ""
         THEN <<Log("warn", "User not found in workspace")>>
         ELSE <<>>

\* the console lines of the action-level watcher block for the emails that
\* are not in userMap (the sub-action block writes none)
RECURSIVE WatcherLog(_, _)
WatcherLog(emails, umap) ==
    IF emails = <<>> THEN <<>>
    ELSE (IF MapGet(umap, Head(emails)) = ""
          THEN <<Log("log", "Watcher not found in team")>> ELSE <<>>)
         \o WatcherLog(Tail(emails), umap)

\* the next iteration of the phase loop
ToPhase(l, p) == [pc |-> "phase_loop", loop |-> [l EXCEPT !.pi = p, !.ai = 0, !.si = 0]]

\* the next iteration of the action loop, or the end of the phase body
ToAction(l, a) ==
    IF a <= Len(CurPhase(l).actions)
    THEN [pc |-> "action_loop", loop |-> [l EXCEPT !.ai = a, !.si = 0]]
    ELSE ToPhase(l, l.pi + 1)

\* after the watchers of an action: its checklist, or the next action
AfterActionWatchers(l) ==
    IF HasChecklist(CurAction(l))
    THEN [pc |-> "action_checklist", loop |-> l]
    ELSE ToAction(l, l.ai + 1)

\* after the nested sub-actions of an action: its watchers
AfterSubs(l) ==
    IF CurAction(l).watchers # <<>>
    THEN [pc |-> "action_watchers", loop |-> l]
    ELSE AfterActionWatchers(l)

\* the next iteration of the sub-action loop, or what follows it
ToSub(l, sub) ==
    IF sub <= Len(CurAction(l).actions)
    THEN [pc |-> "sub_loop", loop |-> [l EXCEPT !.si = sub]]
    ELSE AfterSubs(l)

\* after the checklist of a sub-action: its watchers, or the next sub-action
AfterSubChecklist(l) ==
    IF CurSub(l).watchers # <<>>
    THEN [pc |-> "sub_watchers", loop |-> l]
    ELSE ToSub(l, l.si + 1)

\* after a sub-action task was created
AfterSubCreated(l) ==
    IF HasChecklist(CurSub(l))
    THEN [pc |-> "sub_checklist", loop |-> l]
    ELSE AfterSubChecklist(l)

\* faulty variant, for comparison: the nested loop starts at the second element
AfterActionCreatedFromSecond(l) ==
    IF Len(CurAction(l).actions) > 0 THEN ToSub(l, 2) ELSE AfterSubs(l)

\* after an action task was created: its nested actions, if any
AfterActionCreated(l) ==
    IF Len(CurAction(l).actions) > 0 THEN ToSub(l, 1) ELSE AfterSubs(l)

Continue(next) == Go(next.pc) /\ loop' = next.loop

\* the answers of the remote service to a request whose handler reads the status
Outcomes == {"ok", "429", "err"}

\* the "parent" a task is created with
NoParent == <<>>
Parent(id) == <<id>>

\* parent: phaseTask.id for an action, parent: actionTask.id for a sub-action
ActionParent(l) == Parent(l.phaseTask)

\* faulty variant, for comparison: a sub-action is attached to the phase task
SubParentIsPhase(l) == Parent(l.phaseTask)

SubParent(l) == Parent(l.actionTask)

\* the task the remote service answers with
Task(id, parent, item) == [id |-> id, parent |-> parent, item |-> item]

\* error.response?.status === 429
IsRateLimit(e) == e[1].status = "429"

\* the entry the catch blocks of the loops push to result.errors
FailedToCreate(kind, item, e) == [kind |-> kind, item |-> item, rateLimit |-> IsRateLimit(e)]

\* faulty variant, for comparison: no cooldown after HTTP 429
CooldownSkipped(e) == <<>>

\* the pacing after a failure that does not stop the run
Cooldown(e) == IF IsRateLimit(e) THEN <<Delay(RateLimitCooldown)>> ELSE <<>>

\* rollback(): createdTaskIds.reverse() reverses the array in place, then the
\* loop deletes its elements in order; an empty array ends the rollback at once
BeginRollback(ret) ==
    /\ createdTaskIds' = Reverse(createdTaskIds)
    /\ IF createdTaskIds = <<>>
       THEN Go(ret) /\ rb' = [rb EXCEPT !.runs = @ + 1]
       ELSE /\ Go("rollback")
            /\ rb' = [ret |-> ret, i |-> 1, deletedCount |-> 0, runs |-> rb.runs + 1]

\* one phase: the delay, then createTask without parent
CreatePhase ==
    /\ pc = "phase_loop"
    /\ loop.pi <= Len(template.phases)
    /\ \E outcome \in Outcomes :
         LET item == <<loop.pi>>
             id == IF outcome = "ok" THEN nextId ELSE 0
         IN  /\ anyFailed' = (anyFailed \/ outcome # "ok")
             /\ trace' = trace \o <<Delay(PhaseDelay)>>
                    \o AssigneeLog(CurPhase(loop).assignee_role, template.roles_map, userMap)
                    \o <<CreateTaskCall(targetListId, item, NoParent, outcome, id,
                            ResolveAssignees(CurPhase(loop).assignee_role,
                                             template.roles_map, userMap))>>
             /\ IF outcome = "ok"
                THEN /\ nextId' = nextId + 1
                     /\ createdTaskIds' = Append(createdTaskIds, id)
                     /\ result' = [result EXCEPT !.phases = Append(@, Task(id, NoParent, item))]
                     /\ Continue(ToAction([loop EXCEPT !.phaseTask = id], 1))
                     /\ err' = err
                ELSE /\ Go("phase_catch")
                     /\ err' = Error(outcome, "createTask failed")
                     /\ UNCHANGED <<nextId, createdTaskIds, result, loop>>
    /\ UNCHANGED <<template, options, existingFields, targetListId, fieldValidation,
                   userMap, cl, rb, nl>>
    /\ UNCHANGED outside

\* one action: the delay, then createTask with the phase task as parent
CreateAction ==
    /\ pc = "action_loop"
    /\ \E outcome \in Outcomes :
         LET item == <<loop.pi, loop.ai>>
             id == IF outcome = "ok" THEN nextId ELSE 0
         IN  /\ anyFailed' = (anyFailed \/ outcome # "ok")
             /\ trace' = trace \o <<Delay(ActionDelay)>>
                    \o AssigneeLog(CurAction(loop).assignee_role, template.roles_map, userMap)
                    \o <<CreateTaskCall(targetListId, item, ActionParent(loop), outcome, id,
                            ResolveAssignees(CurAction(loop).assignee_role,
                                             template.roles_map, userMap))>>
             /\ IF outcome = "ok"
                THEN /\ nextId' = nextId + 1
                     /\ createdTaskIds' = Append(createdTaskIds, id)
                     /\ result' = [result EXCEPT
                                     !.actions = Append(@, Task(id, ActionParent(loop), item))]
                     /\ Continue(AfterActionCreated([loop EXCEPT !.actionTask = id]))
                     /\ err' = err
                ELSE /\ Go("action_catch")
                     /\ err' = Error(outcome, "createTask failed")
                     /\ UNCHANGED <<nextId, createdTaskIds, result, loop>>
    /\ UNCHANGED <<template, options, existingFields, targetListId, fieldValidation,
                   userMap, cl, rb, nl>>
    /\ UNCHANGED outside

\* one nested sub-action: the delay, then createTask with the action task as parent
CreateSubAction ==
    /\ pc = "sub_loop"
    /\ \E outcome \in Outcomes :
         LET item == <<loop.pi, loop.ai, loop.si>>
             id == IF outcome = "ok" THEN nextId ELSE 0
         IN  /\ anyFailed' = (anyFailed \/ outcome # "ok")
             /\ trace' = trace \o <<Delay(SubDelay)>>
                    \o AssigneeLog(CurSub(loop).assignee_role, template.roles_map, userMap)
                    \o <<CreateTaskCall(targetListId, item, SubParent(loop), outcome, id,
                            ResolveAssignees(CurSub(loop).assignee_role,
                                             template.roles_map, userMap))>>
             /\ IF outcome = "ok"
                THEN /\ nextId' = nextId + 1
                     /\ createdTaskIds' = Append(createdTaskIds, id)
                     /\ result' = [result EXCEPT
                                     !.actions = Append(@, Task(id, SubParent(loop), item))]
                     /\ Continue(AfterSubCreated([loop EXCEPT !.subTask = id]))
                     /\ err' = err
                ELSE /\ Go("sub_catch")
                     /\ err' = Error(outcome, "createTask failed")
                     /\ UNCHANGED <<nextId, createdTaskIds, result, loop>>
    /\ UNCHANGED <<template, options, existingFields, targetListId, fieldValidation,
                   userMap, cl, rb, nl>>
    /\ UNCHANGED outside

(***************************************************************************)
(* createChecklist, called for a sub-action (cl.ctx = "sub") or for an     *)
(* action (cl.ctx = "action"); an error leaves through the catch block of  *)
(* the caller.                                                             *)
(***************************************************************************)
CatchOf(ctx) == IF ctx = "sub" THEN "sub_catch" ELSE "action_catch"

\* the delay before the checklist, then POST /task/{id}/checklist
ChecklistCreate(ctx, taskId, action) ==
    /\ \E outcome \in Outcomes :
         /\ anyFailed' = (anyFailed \/ outcome # "ok")
         /\ trace' = trace \o <<Delay(AttachDelay), Call("createChecklist", taskId)>>
         /\ IF outcome = "ok"
            THEN /\ cl' = [ctx |-> ctx, task |-> taskId, id |-> nextId,
                           items |-> action.checklist[1].items, i |-> 0]
                 /\ nextId' = nextId + 1
                 /\ Go("checklist_items")
                 /\ err' = err
            ELSE /\ Go(CatchOf(ctx))
                 /\ err' = Error(outcome, "createChecklist failed")
                 /\ UNCHANGED <<cl, nextId>>
    /\ UNCHANGED <<template, options, existingFields, result, createdTaskIds,
                   targetListId, fieldValidation, userMap, loop, rb, nl>>
    /\ UNCHANGED outside

SubChecklist ==
    /\ pc = "sub_checklist"
    /\ ChecklistCreate("sub", loop.subTask, CurSub(loop))

ActionChecklist ==
    /\ pc = "action_checklist"
    /\ ChecklistCreate("action", loop.actionTask, CurAction(loop))

\* faulty variant, for comparison: orderindex counts from one
AppendItemCallOneBased(checklistId, items, i) ==
    [op |-> "addChecklistItem", target |-> checklistId, name |-> items[i + 1],
     orderindex |-> i + 1, resolved |-> FALSE]

\* POST /checklist/{id}/checklist_item for items[i], i zero-based
AppendItemCall(checklistId, items, i) ==
    [op |-> "addChecklistItem", target |-> checklistId, name |-> items[i + 1],
     orderindex |-> i, resolved |-> FALSE]

\* body of the item loop for index cl.i (zero-based): a pause every 5 items,
\* then POST /checklist/{id}/checklist_item; after the last item the checklist
\* is returned and the caller records it
ChecklistItem ==
    /\ pc = "checklist_items"
    /\ \E outcome \in Outcomes :
         /\ anyFailed' = (anyFailed \/ outcome # "ok")
         /\ trace' = trace
               \o (IF cl.i > 0 /\ cl.i % 5 = 0 THEN <<Delay(ChecklistPause)>> ELSE <<>>)
               \o <<AppendItemCall(cl.id, cl.items, cl.i)>>
         /\ IF outcome # "ok"
            THEN /\ Go(CatchOf(cl.ctx))
                 /\ err' = Error(outcome, "checklist item failed")
                 /\ UNCHANGED <<cl, result, loop>>
            ELSE /\ err' = err
                 /\ IF cl.i + 1 < Len(cl.items)
                    THEN /\ cl' = [cl EXCEPT !.i = @ + 1]
                         /\ UNCHANGED <<pc, visited, result, loop>>
                    ELSE /\ cl' = NoCl
                         /\ result' = [result EXCEPT !.checklists =
                                         Append(@, [id |-> cl.id, task |-> cl.task,
                                                    items |-> Len(cl.items)])]
                         /\ Continue(IF cl.ctx = "sub"
                                     THEN AfterSubChecklist(loop)
                                     ELSE ToAction(loop, loop.ai + 1))
    /\ UNCHANGED <<template, options, existingFields, createdTaskIds, targetListId,
                   fieldValidation, userMap, rb, nl, nextId>>
    /\ UNCHANGED outside

(***************************************************************************)
(* Watchers: the block of an action or sub-action that lists watchers.     *)
(* When some email resolves, PUT /task/{id} with watchers_add, in a try     *)
(* block of its own; when none does, no request.                           *)
(***************************************************************************)
\* the request of a watcher block: none when no watcher ID was found
WatcherUpdate(taskId, ids, outcome) ==
    IF ids # <<>>
    THEN <<Delay(AttachDelay), [op |-> "updateTask", target |-> taskId,
                                watchers_add |-> ids, outcome |-> outcome]>>
    ELSE <<>>

\* the answers to that request
WatcherOutcomes(ids) == IF ids # <<>> THEN {"ok", "err"} ELSE {"ok"}

SubWatchers ==
    /\ pc = "sub_watchers"
    /\ LET ids == WatcherIds(CurSub(loop).watchers, userMap)
       IN  \E outcome \in WatcherOutcomes(ids) :
                /\ trace' = trace \o WatcherUpdate(loop.subTask, ids, outcome)
                /\ anyFailed' = (anyFailed \/ outcome # "ok")
                /\ Continue(ToSub(loop, loop.si + 1))
    /\ UNCHANGED <<template, options, existingFields, err, result, createdTaskIds,
                   targetListId, fieldValidation, userMap, cl, rb, nl, nextId>>
    /\ UNCHANGED outside

ActionWatchers ==
    /\ pc = "action_watchers"
    /\ LET ids == WatcherIds(CurAction(loop).watchers, userMap)
       IN  \E outcome \in WatcherOutcomes(ids) :
                /\ trace' = trace \o WatcherLog(CurAction(loop).watchers, userMap)
                                  \o WatcherUpdate(loop.actionTask, ids, outcome)
                /\ anyFailed' = (anyFailed \/ outcome # "ok")
                /\ result' = IF outcome = "ok" THEN result
                             ELSE [result EXCEPT !.warnings = Append(@, "Could not add watchers")]
    /\ Continue(AfterActionWatchers(loop))
    /\ UNCHANGED <<template, options, existingFields, err, createdTaskIds,
                   targetListId, fieldValidation, userMap, cl, rb, nl, nextId>>
    /\ UNCHANGED outside

(***************************************************************************)
(* The catch blocks of the three loops.                                    *)
(***************************************************************************)
\* faulty variant, for comparison: the catch blocks roll back and rethrow whatever the option says
RollsBackAlways == TRUE

\* if (options.enableRollback) in the catch of the action and of the phase try
RollsBack == options.enableRollback

\* faulty variant, for comparison: the element that failed is tried again
RetryAfterCatch(i) == i

\* a catch block ends the iteration: the for-of loop takes the next element
NextAfterCatch(i) == i + 1

\* catch of the sub-action try: record, cool down on 429, next sub-action
SubCatch ==
    /\ pc = "sub_catch"
    /\ result' = [result EXCEPT !.errors =
                    Append(@, FailedToCreate("sub", <<loop.pi, loop.ai, loop.si>>, err))]
    /\ trace' = trace \o Cooldown(err)
    /\ err' = <<>>
    /\ Continue(ToSub(loop, NextAfterCatch(loop.si)))
    /\ UNCHANGED <<template, options, existingFields, createdTaskIds, targetListId,
                   fieldValidation, userMap, cl, rb, nl, nextId, anyFailed>>
    /\ UNCHANGED outside

\* catch of the action try: record; with rollback, roll back and rethrow to
\* the phase catch; otherwise cool down on 429 and go to the next action
ActionCatch ==
    /\ pc = "action_catch"
    /\ result' = [result EXCEPT !.errors =
                    Append(@, FailedToCreate("action", <<loop.pi, loop.ai>>, err))]
    /\ IF RollsBack
       THEN /\ BeginRollback("phase_catch")
            /\ UNCHANGED <<err, trace, loop>>
       ELSE /\ trace' = trace \o Cooldown(err)
            /\ err' = <<>>
            /\ Continue(ToAction(loop, NextAfterCatch(loop.ai)))
            /\ UNCHANGED <<createdTaskIds, rb>>
    /\ UNCHANGED <<template, options, existingFields, targetListId, fieldValidation,
                   userMap, cl, nl, nextId, anyFailed>>
    /\ UNCHANGED outside

\* catch of the phase try: record; with rollback, roll back and rethrow to
\* the outer catch; otherwise cool down on 429 and go to the next phase
PhaseCatch ==
    /\ pc = "phase_catch"
    /\ result' = [result EXCEPT !.errors =
                    Append(@, FailedToCreate("phase", <<loop.pi>>, err))]
    /\ IF RollsBack
       THEN /\ BeginRollback("outer_catch")
            /\ UNCHANGED <<err, trace, loop>>
       ELSE /\ trace' = trace \o Cooldown(err)
            /\ err' = <<>>
            /\ Continue(ToPhase(loop, NextAfterCatch(loop.pi)))
            /\ UNCHANGED <<createdTaskIds, rb>>
    /\ UNCHANGED <<template, options, existingFields, targetListId, fieldValidation,
                   userMap, cl, nl, nextId, anyFailed>>
    /\ UNCHANGED outside

(***************************************************************************)
(* rollback(): one DELETE /task/{id} per element of createdTaskIds; a      *)
(* failed delete is logged and the loop goes on.  The 200 ms pause after a *)
(* successful delete is not recorded in the trace.                         *)
(***************************************************************************)
\* faulty variant, for comparison: a failed delete ends the sweep
SweepStopsOnFailure(outcome) == rb.i < Len(createdTaskIds) /\ outcome = "ok"

\* the for-of loop has a next element; the catch inside its body swallows a
\* failed delete, so the answer does not depend on the outcome
SweepGoesOn(outcome) == rb.i < Len(createdTaskIds)

RollbackDelete ==
    /\ pc = "rollback"
    /\ trace' = Append(trace, Call("deleteTask", createdTaskIds[rb.i]))
    /\ \E outcome \in {"ok", "err"} :
         LET count == IF outcome = "ok" THEN rb.deletedCount + 1 ELSE rb.deletedCount
         IN  /\ anyFailed' = (anyFailed \/ outcome # "ok")
             /\ IF SweepGoesOn(outcome)
                THEN /\ rb' = [rb EXCEPT !.i = @ + 1, !.deletedCount = count]
                     /\ UNCHANGED <<pc, visited>>
                ELSE /\ rb' = [rb EXCEPT !.i = 0, !.deletedCount = count]
                     /\ Go(rb.ret)
    /\ UNCHANGED <<template, options, existingFields, err, result, createdTaskIds,
                   targetListId, fieldValidation, userMap, loop, cl, nl, nextId>>
    /\ UNCHANGED outside

(***************************************************************************)
(* Step 6: the summary, reached when the phase loop is over.               *)
(***************************************************************************)
\* faulty variant, for comparison: the summary reports success whatever was created
SummarySuccessAlways(res) == TRUE

\* result.success = result.phases.length > 0
SummarySuccess(res) == Len(res.phases) > 0

Summarize ==
    /\ pc = "phase_loop"
    /\ loop.pi > Len(template.phases)
    /\ result' = [result EXCEPT
                    !.success = SummarySuccess(result),
                    !.message = IF SummarySuccess(result)
                                THEN "Successfully deployed"
                                ELSE "Deployment failed - check errors"]
    /\ pc' = "done"
    /\ visited' = visited \cup {"summarizing", "done"}
    /\ UNCHANGED <<template, options, existingFields, err, createdTaskIds,
                   targetListId, fieldValidation, userMap, loop, cl, rb, nl, trace,
                   nextId, anyFailed>>
    /\ UNCHANGED outside

(***************************************************************************)
(* The outer catch: the result of a run that an error ended.               *)
(***************************************************************************)
OuterCatch ==
    /\ pc = "outer_catch"
    /\ result' = [result EXCEPT
                    !.success = FALSE,
                    !.message = err[1].message,
                    !.errors = Append(@, [kind |-> "outer", message |-> err[1].message])]
    /\ IF options.enableRollback /\ Len(createdTaskIds) > 0
       THEN BeginRollback("done")
       ELSE Go("done") /\ UNCHANGED <<createdTaskIds, rb>>
    /\ UNCHANGED <<template, options, existingFields, err, targetListId,
                   fieldValidation, userMap, loop, cl, nl, trace, nextId, anyFailed>>
    /\ UNCHANGED outside

Next ==
    \/ ValidateConnection
    \/ ResolveSpace
    \/ ResolveFolder
    \/ ResolveList
    \/ DetermineTarget
    \/ NewListCreate
    \/ NewListFolder
    \/ NewListInFolder
    \/ NewListSimple
    \/ NewListStatus
    \/ ValidateFields
    \/ EnsureAccess
    \/ MapRoles
    \/ CreatePhase
    \/ CreateAction
    \/ CreateSubAction
    \/ SubChecklist
    \/ ActionChecklist
    \/ ChecklistItem
    \/ SubWatchers
    \/ ActionWatchers
    \/ SubCatch
    \/ ActionCatch
    \/ PhaseCatch
    \/ RollbackDelete
    \/ Summarize
    \/ OuterCatch

Spec == Init /\ [][Next]_vars

(***************************************************************************)
(* What the claims are stated about.                                       *)
(***************************************************************************)
Done == pc = "done"

IsCreate(e) == e.op = "createTask"
IsCreated(e) == e.op = "createTask" /\ e.outcome = "ok"
IsDelete(e) == e.op = "deleteTask"

\* positions in the trace of the create-task calls, and of those that failed
CreateIdx == {i \in DOMAIN trace : IsCreate(trace[i])}
FailedIdx == {i \in CreateIdx : trace[i].outcome # "ok"}

Min(S) == CHOOSE x \in S : \A y \in S : x <= y

\* the IDs of the tasks created among the first n entries of the trace, in order
CreatedBefore(n) ==
    LET created == SelectSeq(SubSeq(trace, 1, n), IsCreated)
    IN  [i \in DOMAIN created |-> created[i].id]

\* the IDs the delete-task calls of the run were issued for, in order
DeletedIds ==
    LET deletes == SelectSeq(trace, IsDelete)
    IN  [i \in DOMAIN deletes |-> deletes[i].target]

\* a create-task call was issued for the item at this path of the template
HasCreateCall(item) == \E i \in CreateIdx : trace[i].item = item

\* result.errors holds a "Failed to create" entry for the item
HasErrorFor(item) ==
    \E k \in DOMAIN result.errors :
        /\ result.errors[k].kind \in {"phase", "action", "sub"}
        /\ result.errors[k].item = item

\* the number of siblings of the item at this path: the phases, the actions of
\* its phase, or the sub-actions of its action
SiblingCount(item) ==
    CASE Len(item) = 1 -> Len(template.phases)
      [] Len(item) = 2 -> Len(template.phases[item[1]].actions)
      [] Len(item) = 3 -> Len(template.phases[item[1]].actions[item[2]].actions)

\* the siblings that come after the item in the template
LaterSiblings(item) ==
    {[item EXCEPT ![Len(item)] = k] : k \in (item[Len(item)] + 1)..SiblingCount(item)}

LaterPhases(item) == {<<p>> : p \in (item[1] + 1)..Len(template.phases)}

(***************************************************************************)
(* C1.  With enableRollback set, if a create-task call fails after N tasks *)
(* were created, the delete-task calls of the whole run are exactly one    *)
(* per created task, in the reverse of the order of creation.              *)
(***************************************************************************)
C1_RollbackDeletesEachOnceInReverse ==
    (Done /\ options.enableRollback /\ FailedIdx # {})
        => DeletedIds = Reverse(CreatedBefore(Min(FailedIdx)))

(***************************************************************************)
(* C2.  With enableRollback set, a failed create-task call for a phase, an *)
(* action or a sub-action is the last create-task call of the run,         *)
(* rollback is triggered and the result has success = false.               *)
(***************************************************************************)
C2_FailureAbortsRunWithRollback ==
    options.enableRollback =>
        \A i \in FailedIdx :
            /\ \A j \in CreateIdx : j <= i
            /\ Done => (~result.success /\ rb.runs > 0)

(***************************************************************************)
(* C3.  With enableRollback not set, a failed create-task call for a       *)
(* phase, an action or a sub-action leaves an entry in result.errors and   *)
(* does not stop the run: on return every later sibling and every later    *)
(* phase has had its create-task call, and result.success is true if a     *)
(* phase task was created.                                                 *)
(***************************************************************************)
C3_FailureWithoutRollbackContinues ==
    (Done /\ ~options.enableRollback) =>
        \A i \in FailedIdx :
            /\ HasErrorFor(trace[i].item)
            /\ \A later \in LaterSiblings(trace[i].item) \cup LaterPhases(trace[i].item) :
                   HasCreateCall(later)
            /\ Len(result.phases) > 0 => result.success

\* the first of two phases failed, the second was created, the run succeeded
C3_Witness ==
    /\ Done
    /\ ~options.enableRollback
    /\ \E i \in FailedIdx : trace[i].item = <<1>>
    /\ \E j \in CreateIdx : trace[j].item = <<2>> /\ trace[j].outcome = "ok"
    /\ \E i \in FailedIdx : Len(trace[i].item) = 2
    /\ result.success

(***************************************************************************)
(* C4.  On return result.success is true if and only if at least one phase *)
(* task was created and the run reached the summary step; a template with  *)
(* no phases yields success = false and no create-task call.               *)
(***************************************************************************)
C4_SuccessIffPhaseCreatedAndSummarized ==
    /\ Done => (result.success <=> (Len(result.phases) > 0 /\ "summarizing" \in visited))
    /\ template.phases = <<>> => (CreateIdx = {} /\ (Done => ~result.success))

\* a run that created a phase task and was ended by an error
C4_Witness ==
    /\ Done
    /\ Len(result.phases) > 0
    /\ "summarizing" \notin visited
    /\ ~result.success

(***************************************************************************)
(* C5.  Every phase task is created without parent, every action task with *)
(* the ID the remote service returned for its phase's task as parent,      *)
(* every sub-action task with the ID returned for its action's task; the   *)
(* parent's create-task call comes first.                                  *)
(***************************************************************************)
ParentItem(item) == SubSeq(item, 1, Len(item) - 1)

C5_ParentLinkage ==
    \A i \in CreateIdx :
        IF Len(trace[i].item) = 1
        THEN trace[i].parent = NoParent
        ELSE \E j \in 1..(i - 1) :
                 /\ IsCreated(trace[j])
                 /\ trace[j].item = ParentItem(trace[i].item)
                 /\ trace[i].parent = Parent(trace[j].id)

\* a sub-action task was created under its action, which sits under its phase
C5_Witness ==
    \E i \in CreateIdx :
        /\ Len(trace[i].item) = 3
        /\ IsCreated(trace[i])
        /\ \E j \in CreateIdx :
               /\ trace[j].item = ParentItem(trace[i].item)
               /\ trace[i].parent = Parent(trace[j].id)
               /\ trace[j].parent # NoParent

(***************************************************************************)
(* C6.  If stopOnMissingFields is set and a custom-field name the template *)
(* references matches no field of the destination list, no create-task     *)
(* call is ever issued and the run returns success = false; when the run   *)
(* gets as far as the field check, result.missingFields holds the missing  *)
(* names.                                                                  *)
(***************************************************************************)
\* the paths of the phases, actions, sub-actions and deeper nested actions
PhasePaths(tpl) == {<<p>> : p \in DOMAIN tpl.phases}
ActionPaths(tpl) ==
    UNION {{<<p, a>> : a \in DOMAIN tpl.phases[p].actions} : p \in DOMAIN tpl.phases}
ActionAt(tpl, q) == tpl.phases[q[1]].actions[q[2]]
SubPaths(tpl) ==
    UNION {{<<q[1], q[2], k>> : k \in DOMAIN ActionAt(tpl, q).actions} : q \in ActionPaths(tpl)}
SubAt(tpl, q) == ActionAt(tpl, q).actions[q[3]]
DeeperPaths(tpl) ==
    UNION {{<<q[1], q[2], q[3], k>> : k \in DOMAIN SubAt(tpl, q).actions} : q \in SubPaths(tpl)}

\* the custom-field names in the defaults, phases, actions and sub-actions
ReferencedNames(tpl) ==
    Range(tpl.defaults.custom_fields)
      \cup UNION {Range(tpl.phases[q[1]].custom_fields) : q \in PhasePaths(tpl)}
      \cup UNION {Range(ActionAt(tpl, q).custom_fields) : q \in ActionPaths(tpl)}
      \cup UNION {Range(SubAt(tpl, q).custom_fields) : q \in SubPaths(tpl)}

\* the destination fields whose name equals the name, and those whose name
\* equals it once both are lower-cased and trimmed
ExactFields(name) == {i \in DOMAIN existingFields : existingFields[i].name = name}
LooseFields(name) ==
    {i \in DOMAIN existingFields : LowerTrim(existingFields[i].name) = LowerTrim(name)}

MissingOnList == {n \in ReferencedNames(template) : LooseFields(n) = {}}

C6_StopOnMissingCreatesNothing ==
    (options.stopOnMissingFields /\ MissingOnList # {}) =>
        /\ CreateIdx = {}
        /\ Done => ~result.success
        /\ (Done /\ err = <<>>) => Range(result.missingFields) = MissingOnList

\* a run stopped by the field check
C6_Witness ==
    /\ Done
    /\ options.stopOnMissingFields
    /\ err = <<>>
    /\ result.missingFields # <<>>
    /\ Range(result.missingFields) = MissingOnList
    /\ "validating_fields" \in visited

(***************************************************************************)
(* C7.  Whenever a run fails during setup (the connection check fails, a   *)
(* name cannot be resolved, no destination can be determined, or fields    *)
(* are missing with stopOnMissingFields set), the run has issued no        *)
(* mutating remote call and the result has success = false with empty      *)
(* phases and actions.                                                     *)
(***************************************************************************)
\* the remote calls that create, update or delete something
MutatingOps ==
    {"createList", "createFolder", "addStatus", "createTask", "deleteTask",
     "createChecklist", "addChecklistItem", "updateTask"}

SetupFailureMessages ==
    {"connection", "space not resolved", "folder not resolved", "list not resolved",
     "no destination", "no list_id and createNewListIfNeeded is false",
     "STOPPED: Missing custom fields"}

C7_SetupFailureBeforeAnyMutation ==
    (Done /\ result.message \in SetupFailureMessages) =>
        /\ \A i \in DOMAIN trace : trace[i].op \notin MutatingOps
        /\ ~result.success
        /\ result.phases = <<>>
        /\ result.actions = <<>>

(***************************************************************************)
(* C8.  In a run of the deploy loop in which no remote call fails, on a    *)
(* template with at least one phase, a create-task call is made for every  *)
(* phase, action and nested action at every depth, and the result holds    *)
(* one phases entry per phase, one actions entry per action or sub-action, *)
(* one checklists entry per checklist with at least one item, and          *)
(* success = true.                                                         *)
(***************************************************************************)
AllItems(tpl) == PhasePaths(tpl) \cup ActionPaths(tpl) \cup SubPaths(tpl) \cup DeeperPaths(tpl)

ChecklistCount(tpl) ==
    Cardinality({q \in ActionPaths(tpl) : HasChecklist(ActionAt(tpl, q))})
      + Cardinality({q \in SubPaths(tpl) : HasChecklist(SubAt(tpl, q))})

C8_EveryItemCreated ==
    (Done /\ ~anyFailed /\ "phase_loop" \in visited /\ template.phases # <<>>) =>
        /\ \A item \in AllItems(template) : HasCreateCall(item)
        /\ Len(result.phases) = Cardinality(PhasePaths(template))
        /\ Len(result.actions) =
              Cardinality(ActionPaths(template)) + Cardinality(SubPaths(template))
        /\ Len(result.checklists) = ChecklistCount(template)
        /\ result.success

(***************************************************************************)
(* C9.  When the create-task call for an action returns HTTP 429: the      *)
(* failed action is recorded in result.errors, the 5-second cooldown       *)
(* follows the call, the action is not retried, the remaining actions get  *)
(* their create-task calls, and result.success is true on return.  As      *)
(* claimed, for every run; as amended, for the runs with enableRollback    *)
(* not set.                                                                *)
(***************************************************************************)
RateLimitedActionIdx ==
    {i \in FailedIdx : Len(trace[i].item) = 2 /\ trace[i].outcome = "429"}

RateLimitHandled(i) ==
    /\ i < Len(trace) => trace[i + 1] = Delay(RateLimitCooldown)
    /\ Done =>
         /\ i < Len(trace)
         /\ \E k \in DOMAIN result.errors :
                result.errors[k] = [kind |-> "action", item |-> trace[i].item, rateLimit |-> TRUE]
         /\ Cardinality({j \in CreateIdx : trace[j].item = trace[i].item}) = 1
         /\ \A later \in LaterSiblings(trace[i].item) : HasCreateCall(later)
         /\ result.success

C9_RateLimitedActionCoolsDownAndContinues ==
    \A i \in RateLimitedActionIdx : RateLimitHandled(i)

C9_WithoutRollbackRateLimitedActionContinues ==
    ~options.enableRollback => \A i \in RateLimitedActionIdx : RateLimitHandled(i)

\* the second of three actions was answered with 429 and the third was created
C9_Witness ==
    /\ Done
    /\ ~options.enableRollback
    /\ \E i \in RateLimitedActionIdx : trace[i].item = <<1, 2>>
    /\ \E j \in CreateIdx : trace[j].item = <<1, 3>> /\ trace[j].outcome = "ok"
    /\ result.success

(***************************************************************************)
(* validateCustomFields on its own: the run stands at the field check of a *)
(* template whose destination is a list given by ID; the template          *)
(* references up to one name in its defaults, its phase, its action and    *)
(* its sub-action, and the list carries up to MaxFields fields.            *)
(***************************************************************************)
FieldId(i) == CASE i = 1 -> "cf1" [] i = 2 -> "cf2" [] i = 3 -> "cf3" [] OTHER -> "cf4"

NameSlots == {<<>>} \cup {<<n>> : n \in FieldNames}

FieldTemplates ==
    {Template(DestList, d,
        << Phase("p1", p,
             << Action("A1", a, NoChecklist, <<>>,
                  << Action("S1", sub, NoChecklist, <<>>, <<>>) >>) >>) >>) :
       d \in NameSlots, p \in NameSlots, a \in NameSlots, sub \in NameSlots}

ExistingFieldSeqs ==
    UNION {{[i \in 1..n |-> [name |-> f[i], id |-> FieldId(i)]] : f \in [1..n -> FieldNames]} :
             n \in 0..MaxFields}

InitFields ==
    /\ template \in FieldTemplates
    /\ options \in {o \in Options : ~o.createNewListIfNeeded /\ ~o.enableRollback}
    /\ existingFields \in ExistingFieldSeqs
    /\ pc = "validating_fields"
    /\ err = <<>>
    /\ result = [EmptyResult EXCEPT !.listId = "l1"]
    /\ createdTaskIds = <<>>
    /\ targetListId = "l1"
    /\ fieldValidation = [fieldMap |-> <<>>, missingFields |-> <<>>]
    /\ userMap = <<>>
    /\ loop = NoLoop
    /\ cl = NoCl
    /\ rb = NoRb
    /\ nl = NoNl
    /\ trace = <<Call("get", "user")>>
    /\ nextId = 1
    /\ visited = {"validating_connection", "resolve_space", "resolve_folder",
                  "resolve_list", "determine_target", "validating_fields"}
    /\ anyFailed = FALSE
    /\ history = <<>>
    /\ console = Native
    /\ req = NoRequests
    /\ call = NoCall

NextFields == ValidateFields

SpecFields == InitFields /\ [][NextFields]_vars

\* validateCustomFields has returned
Validated ==
    /\ "validating_fields" \in visited
    /\ pc # "validating_fields"
    /\ err = <<>> \/ err[1].message # "fields not read"

(***************************************************************************)
(* C10.  validateCustomFields maps every custom-field name the template    *)
(* references to the ID of a destination field with exactly that name when *)
(* there is one, otherwise to the ID of a destination field whose name     *)
(* equals it after lower-casing and trimming both, and otherwise lists it  *)
(* in missingFields; every referenced name is in exactly one of fieldMap   *)
(* and missingFields.                                                      *)
(***************************************************************************)
C10_FieldMatching ==
    Validated =>
        \A n \in ReferencedNames(template) :
            LET fm == fieldValidation.fieldMap
                inMap == MapHas(fm, n)
                inMissing == n \in Range(fieldValidation.missingFields)
            IN  /\ inMap # inMissing
                /\ ExactFields(n) # {} =>
                      (inMap /\ \E i \in ExactFields(n) : MapGet(fm, n) = existingFields[i].id)
                /\ (ExactFields(n) = {} /\ LooseFields(n) # {}) =>
                      (inMap /\ \E i \in LooseFields(n) : MapGet(fm, n) = existingFields[i].id)
                /\ LooseFields(n) = {} => inMissing

\* one name matched exactly although another field matches it loosely, one
\* name matched only after lower-casing and trimming, one name missing
C10_Witness ==
    /\ Validated
    /\ \E n \in ReferencedNames(template) :
           /\ ExactFields(n) # {}
           /\ LooseFields(n) # ExactFields(n)
           /\ MapHas(fieldValidation.fieldMap, n)
    /\ \E n \in ReferencedNames(template) :
           /\ ExactFields(n) = {}
           /\ LooseFields(n) # {}
           /\ MapHas(fieldValidation.fieldMap, n)
    /\ \E n \in ReferencedNames(template) : n \in Range(fieldValidation.missingFields)

(***************************************************************************)
(* C11.  A delete-task call that fails during rollback does not stop the   *)
(* sweep: every sweep of a finished run has attempted one delete for every *)
(* recorded task, whatever the deletes answered.  Rollback never raises:   *)
(* the run returns, with success = false, and the error it reports is the  *)
(* failure that started the rollback.                                      *)
(***************************************************************************)
\* the number of delete-task calls issued for the task
DeleteCount(id) == Cardinality({i \in DOMAIN trace : IsDelete(trace[i]) /\ trace[i].target = id})

\* the messages of the failures that can start a rollback
OriginalFailures == {"createTask failed", "createChecklist failed", "checklist item failed"}

C11_RollbackToleratesFailedDeletes ==
    /\ (Done /\ rb.runs > 0) =>
         /\ \A id \in Range(createdTaskIds) : DeleteCount(id) = rb.runs
         /\ ~result.success
         /\ result.message \in OriginalFailures
         /\ result.errors[Len(result.errors)] = [kind |-> "outer", message |-> result.message]
    /\ pc = "rollback" => err # <<>> /\ err[1].message \in OriginalFailures

\* a finished run whose last sweep had a failed delete before its last delete
C11_Witness ==
    /\ Done
    /\ rb.runs > 0
    /\ Len(createdTaskIds) >= 2
    /\ rb.deletedCount = 0
    /\ \A id \in Range(createdTaskIds) : DeleteCount(id) = rb.runs

(***************************************************************************)
(* C12.  Each warning condition met during a run - an assignee that cannot *)
(* be resolved, a watcher email that is not in the team, a failure to add  *)
(* statuses to a new list, a failure of the list-membership check - has    *)
(* added an entry of its own to result.warnings when the run returns.      *)
(***************************************************************************)
\* the phase, action or sub-action at a path of the template
ItemAt(tpl, q) ==
    CASE Len(q) = 1 -> tpl.phases[q[1]]
      [] Len(q) = 2 -> ActionAt(tpl, q)
      [] Len(q) = 3 -> SubAt(tpl, q)

\* a create-task call went out without assignee for an item that names a role
UnresolvedAssignee ==
    \E i \in CreateIdx :
        /\ ItemAt(template, trace[i].item).assignee_role # ""
        /\ trace[i].assignees = <<>>

\* the watcher block of a created action or sub-action met an email that is
\* not in the team-member map
UnknownWatcher ==
    \E i \in CreateIdx :
        /\ IsCreated(trace[i])
        /\ Len(trace[i].item) \in {2, 3}
        /\ ~HasErrorFor(trace[i].item)
        /\ \E email \in Range(ItemAt(template, trace[i].item).watchers) : ~MapHas(userMap, email)

StatusFailure == \E i \in DOMAIN trace : trace[i] = Log("error", "Failed to add statuses")

AccessCheckFailure == \E i \in DOMAIN trace : trace[i] = Log("error", "Error checking access")

\* the warnings the run pushes for other reasons: a new list was created,
\* the run continues without some fields, a watcher update failed
OtherWarnings == {"New list created", "Continuing without fields", "Could not add watchers"}

\* result.warnings has at least n entries that are none of the above
HasOwnWarnings(n) ==
    Cardinality({k \in DOMAIN result.warnings : result.warnings[k] \notin OtherWarnings}) >= n

C12_WarningConditionsAreRecorded ==
    Done =>
        /\ UnresolvedAssignee => HasOwnWarnings(1)
        /\ UnknownWatcher => HasOwnWarnings(1)
        /\ StatusFailure => HasOwnWarnings(1)
        /\ AccessCheckFailure => HasOwnWarnings(1)

(***************************************************************************)
(* C13.  Every watcher-update call goes to a created action or sub-action  *)
(* that lists watchers and carries exactly the IDs of the listed emails    *)
(* that are in the team-member map, in order, and at least one; a step of  *)
(* a watcher block, whether its update fails or not, adds nothing to       *)
(* result.errors, starts no rollback and hands over to the next piece of   *)
(* the loops, whatever enableRollback says.                                *)
(***************************************************************************)
UpdateIdx == {i \in DOMAIN trace : trace[i].op = "updateTask"}

\* the item of the template the task was created for
ItemOfTask(id) == trace[CHOOSE j \in CreateIdx : IsCreated(trace[j]) /\ trace[j].id = id].item

\* the IDs of the listed emails that are keys of the team-member map
ResolvedWatchers(item) ==
    LET InTeam(email) == MapHas(userMap, email)
        found == SelectSeq(ItemAt(template, item).watchers, InTeam)
    IN  [k \in DOMAIN found |-> ParseInt(MapGet(userMap, found[k]))]

InWatcherBlock == pc \in {"sub_watchers", "action_watchers"}

\* the steps a watcher block can hand over to
AfterWatcherBlock ==
    {"sub_loop", "action_watchers", "action_checklist", "action_loop", "phase_loop"}

WatcherCallsCarryResolvedIds ==
    \A i \in UpdateIdx :
        /\ \E j \in 1..(i - 1) : IsCreated(trace[j]) /\ trace[j].id = trace[i].target
        /\ Len(ItemOfTask(trace[i].target)) \in {2, 3}
        /\ trace[i].watchers_add = ResolvedWatchers(ItemOfTask(trace[i].target))
        /\ trace[i].watchers_add # <<>>

WatcherBlockNeverFailsTheRun ==
    InWatcherBlock =>
        /\ result'.errors = result.errors
        /\ pc' \in AfterWatcherBlock
        /\ rb' = rb
        /\ err' = err
        /\ createdTaskIds' = createdTaskIds

C13_WatcherUpdates ==
    /\ []WatcherCallsCarryResolvedIds
    /\ [][WatcherBlockNeverFailsTheRun]_vars

\* with enableRollback set, the watcher updates of an action and of a
\* sub-action failed, one of them for a task that lists an unknown email, and
\* the run went on to create the next action and returned success
C13_Witness ==
    /\ Done
    /\ options.enableRollback
    /\ result.success
    /\ result.errors = <<>>
    /\ \E i \in UpdateIdx : trace[i].outcome = "err" /\ Len(ItemOfTask(trace[i].target)) = 3
    /\ \E i \in UpdateIdx :
           /\ trace[i].outcome = "err"
           /\ Len(ItemOfTask(trace[i].target)) = 2
           /\ Len(trace[i].watchers_add) < Len(ItemAt(template, ItemOfTask(trace[i].target)).watchers)
           /\ \E j \in CreateIdx : j > i /\ IsCreated(trace[j])

(***************************************************************************)
(* C14 as claimed.  When the destination yields no list and no remote call *)
(* fails: with createNewListIfNeeded false the run fails, with a message   *)
(* about the missing destination and no create-task call; with             *)
(* createNewListIfNeeded true a new list is created, result.mode is        *)
(* "new_list" and every create-task call goes to that list.                *)
(***************************************************************************)
\* the run is past the target determination and the destination has no list
NoListDetermined ==
    /\ "determine_target" \in visited
    /\ pc # "determine_target"
    /\ template.destination.list_id = ""

HasListParent == template.destination.folder_id # "" \/ template.destination.space_id # ""

NoListMessage == "no list_id and createNewListIfNeeded is false"
NoDestinationMessage == "no destination"

CreateListIdx == {i \in DOMAIN trace : trace[i].op = "createList"}

\* the list the remote service created: the model's remote names it "nl1"
NewListId == "nl1"

TasksGoToNewList ==
    /\ result.mode = "new_list"
    /\ result.listId = NewListId
    /\ CreateListIdx # {}
    /\ \A i \in CreateIdx : trace[i].target = NewListId /\ \E j \in CreateListIdx : j < i

C14_NoListFailsOrCreatesList ==
    (NoListDetermined /\ ~anyFailed) =>
        /\ ~options.createNewListIfNeeded =>
              /\ CreateIdx = {}
              /\ Done => (~result.success /\ result.message \in {NoListMessage, NoDestinationMessage})
        /\ (options.createNewListIfNeeded /\ Done) => TasksGoToNewList

(***************************************************************************)
(* C14 amended.  When the destination yields no list: if it yields neither *)
(* a folder nor a space the run fails with the no-destination message and  *)
(* without any create-list or create-task call, whatever                   *)
(* createNewListIfNeeded says; if it yields a folder or a space and        *)
(* createNewListIfNeeded is false the run fails with the no-list message   *)
(* and without such calls; if createNewListIfNeeded is true a create-list  *)
(* call is issued and, once the creation has returned, result.mode is      *)
(* "new_list" and every create-task call goes to the new list.             *)
(***************************************************************************)
FailsWithoutTask(message) ==
    /\ CreateIdx = {}
    /\ CreateListIdx = {}
    /\ pc \in {"outer_catch", "done"}
    /\ Done => (~result.success /\ result.message = message /\ result.mode = "existing_list")

C14_NoListNeedsParentAndOption ==
    NoListDetermined =>
        /\ ~HasListParent => FailsWithoutTask(NoDestinationMessage)
        /\ (HasListParent /\ ~options.createNewListIfNeeded) => FailsWithoutTask(NoListMessage)
        /\ (HasListParent /\ options.createNewListIfNeeded) =>
              /\ pc = "new_list" \/ CreateListIdx # {}
              /\ "validating_fields" \in visited => TasksGoToNewList
              /\ CreateIdx # {} => "validating_fields" \in visited

\* a run that created a list in the space it resolved by name, and a task in it
C14_Witness ==
    /\ Done
    /\ NoListDetermined
    /\ options.createNewListIfNeeded
    /\ template.destination.space_name # NoName
    /\ result.success
    /\ TasksGoToNewList
    /\ \E i \in CreateIdx : IsCreated(trace[i])

(***************************************************************************)
(* Sequential runs.  deployTemplateSmartly is called again with the same   *)
(* template object and options once a run has returned.  All the state of  *)
(* a run is local to the call (result, createdTaskIds, userMap, ...); what *)
(* a later call finds is the template object as the earlier call left it   *)
(* and the remote workspace with its tasks.  The model repeats a run after *)
(* a run in which no request failed.                                       *)
(***************************************************************************)
\* the number of runs on one template object
MaxRuns == 2

\* faulty variant, for comparison: the result object is shared between calls
ResultCarriedOver(previous) == previous

\* const result: DeploymentResult = { ... }, built by each call
ResultOfNewRun(previous) == EmptyResult

Rerun ==
    /\ pc = "done"
    /\ ~anyFailed
    /\ Len(history) < MaxRuns - 1
    /\ history' = Append(history, [result |-> result, trace |-> trace])
    /\ pc' = "validating_connection"
    /\ visited' = {"validating_connection"}
    /\ err' = <<>>
    /\ result' = ResultOfNewRun(result)
    /\ createdTaskIds' = <<>>
    /\ targetListId' = ""
    /\ fieldValidation' = [fieldMap |-> <<>>, missingFields |-> <<>>]
    /\ userMap' = <<>>
    /\ loop' = NoLoop
    /\ cl' = NoCl
    /\ rb' = NoRb
    /\ nl' = NoNl
    /\ trace' = <<>>
    /\ anyFailed' = FALSE
    /\ UNCHANGED <<template, options, existingFields, nextId, console, req, call>>

NextRuns ==
    \/ Next
    \/ Rerun

SpecRuns == Init /\ [][NextRuns]_vars

(***************************************************************************)
(* C15.  A second run on the same template issues its create-task calls    *)
(* whatever the first run created: when the list is given by ID and both   *)
(* runs succeed without a failed request, the second run issues the same   *)
(* create-task calls as the first, one for every phase, action and         *)
(* sub-action, and no task ID appears in both results.                     *)
(***************************************************************************)
InSecondRun == Len(history) = 1

\* the task IDs a result reports
ReportedIds(res) ==
    {res.phases[k].id : k \in DOMAIN res.phases} \cup {res.actions[k].id : k \in DOMAIN res.actions}

\* the items the create-task calls of a trace were issued for, in order
CreatedItems(tr) ==
    LET creates == SelectSeq(tr, IsCreate)
    IN  [k \in DOMAIN creates |-> creates[k].item]

GivenByIds(tpl) ==
    /\ tpl.destination.list_id # ""
    /\ tpl.destination.space_name = NoName
    /\ tpl.destination.folder_name = NoName
    /\ tpl.destination.list_name = NoName

C15_SequentialRunsAreDisjoint ==
    InSecondRun =>
        /\ ReportedIds(result) \cap ReportedIds(history[1].result) = {}
        /\ (Done /\ ~anyFailed /\ GivenByIds(template)
              /\ result.success /\ history[1].result.success) =>
              /\ CreatedItems(trace) = CreatedItems(history[1].trace)
              /\ Range(CreatedItems(trace)) =
                    PhasePaths(template) \cup ActionPaths(template) \cup SubPaths(template)
              /\ Cardinality(ReportedIds(result)) = Cardinality(ReportedIds(history[1].result))
              /\ Cardinality(ReportedIds(result)) = Len(CreatedItems(trace))

\* two successful runs on a template with nested actions
C15_Witness ==
    /\ InSecondRun
    /\ Done
    /\ ~anyFailed
    /\ GivenByIds(template)
    /\ result.success
    /\ history[1].result.success
    /\ Cardinality(ReportedIds(result)) >= 4
    /\ ReportedIds(history[1].result) # {}

(***************************************************************************)
(* C16.  Nothing is carried over from one run to the next: no step of a    *)
(* run changes the template object, and a second run on the same template  *)
(* object that meets no failed request has issued, when it returns, the    *)
(* same name-resolution lookups as the first.                              *)
(***************************************************************************)
IsLookup(e) == e.op = "get" /\ e.target \in {"spaces", "folders", "lists"}

Lookups(tr) == SelectSeq(tr, IsLookup)

TemplateUnchanged == template' = template

SecondRunRepeatsLookups ==
    (InSecondRun /\ Done /\ ~anyFailed) => Lookups(trace) = Lookups(history[1].trace)

C16_NothingCarriedOver ==
    /\ [][TemplateUnchanged]_vars
    /\ []SecondRunRepeatsLookups

(***************************************************************************)
(* The deploy endpoint (POST of src/unnamed/part_001).  A request parses   *)
(* its body, starts its LogCapture, awaits deployTemplateSmartly, stops    *)
(* the capture, optionally reports back to the template library, and       *)
(* answers with the result and the captured logs.  The handlers of         *)
(* concurrent requests interleave at their awaits.  Of a deployment the    *)
(* model keeps the lines it writes to the console.                         *)
(***************************************************************************)
Line(r, text, n) == [by |-> r, text |-> text, n |-> n]

\* calling a console function: a wrapper pushes the line to the logs of its
\* LogCapture and calls the function its capture saved
RECURSIVE Deliver(_, _, _)
Deliver(f, line, rs) ==
    IF f.fn = "capture"
    THEN Deliver(rs[f.of].original, line, [rs EXCEPT ![f.of].logs = Append(@, line)])
    ELSE rs

\* the call ends in a TypeError: the function, or the saved function at the
\* end of the chain of wrappers, is undefined
RECURSIVE Throws(_, _)
Throws(f, rs) ==
    CASE f.fn = "capture" -> Throws(rs[f.of].original, rs)
      [] f.fn = "native" -> FALSE
      [] f.fn = "undefined" -> TRUE

Respond(rs, r, status) ==
    [rs EXCEPT ![r].pc = "responded",
               ![r].response = <<[status |-> status, logs |-> rs[r].logs]>>]

\* the catch of the handler: logCapture.stop(), console.error, answer 500;
\* when console.error cannot be called the handler itself throws
RouteCatch(r, rs) ==
    LET restored == rs[r].original
        rs1 == Deliver(restored, Line(r, "API route error", 0), rs)
    IN  /\ console' = restored
        /\ req' = IF Throws(restored, rs)
                  THEN [rs1 EXCEPT ![r].pc = "crashed"]
                  ELSE Respond(rs1, r, 500)

\* POST is called: new LogCapture(), await request.json()
Receive(r) ==
    /\ req[r].pc = "idle"
    /\ req' = [req EXCEPT ![r].pc = "parsing"]
    /\ UNCHANGED <<console, inside, history, call>>

\* what request.json() gives: a body with template and token, the same with
\* the IDs of the template library, a body lacking one of them, or no JSON
Bodies == {"ok", "report", "missing", "bad"}

\* logCapture.start(): save the console functions, install the wrappers
Start(r, body) ==
    /\ console' = Wrapper(r)
    /\ req' = [q \in Requests |->
                 IF q = r
                 THEN [req[r] EXCEPT !.pc = "deploying", !.logs = <<>>, !.original = console,
                                     !.report = (body = "report"),
                                     !.met = {p \in Requests \ {r} : req[p].pc = "deploying"}]
                 ELSE IF req[q].pc = "deploying"
                      THEN [req[q] EXCEPT !.met = @ \cup {r}]
                      ELSE req[q]]

Parsed(r) ==
    /\ req[r].pc = "parsing"
    /\ \E body \in Bodies :
         CASE body \in {"ok", "report"} -> Start(r, body)
           [] body = "missing" -> req' = Respond(req, r, 400) /\ console' = console
           [] body = "bad" -> RouteCatch(r, req)
    /\ UNCHANGED <<inside, history, call>>

\* the deployment writes a line through the console function installed at
\* that moment; if the call throws, so does console.error in the catch of
\* deployTemplateSmartly, and the handler's catch takes over
DeployLog(r) ==
    /\ req[r].pc = "deploying"
    /\ req[r].emitted < MaxLines
    /\ LET line == Line(r, "deploy", req[r].emitted + 1)
           rs1 == Deliver(console, line, req)
       IN  IF Throws(console, req)
           THEN RouteCatch(r, Deliver(console, Line(r, "Deployment error", 0), rs1))
           ELSE /\ req' = [rs1 EXCEPT ![r].emitted = @ + 1]
                /\ console' = console
    /\ UNCHANGED <<inside, history, call>>

\* deployTemplateSmartly returns: logCapture.stop(), then the report to the
\* template library if asked for and the run succeeded, or the answer
DeployReturns(r) ==
    /\ req[r].pc = "deploying"
    /\ req[r].emitted >= 1
    /\ console' = req[r].original
    /\ \E success \in BOOLEAN :
         req' = IF success /\ req[r].report
                THEN [req EXCEPT ![r].pc = "reporting"]
                ELSE Respond(req, r, 200)
    /\ UNCHANGED <<inside, history, call>>

\* the report is over: one console line, then the answer with the logs
Reported(r) ==
    /\ req[r].pc = "reporting"
    /\ \E outcome \in {"ok", "err"} :
         LET failed == Line(r, "Failed to report deployment", 0)
             rs1 == IF outcome = "ok"
                    THEN Deliver(console, Line(r, "Deployment reported", 0), req)
                    ELSE Deliver(console, failed, req)
         IN  IF Throws(console, req)
             THEN RouteCatch(r, IF outcome = "ok" THEN Deliver(console, failed, rs1) ELSE rs1)
             ELSE req' = Respond(rs1, r, 200) /\ console' = console
    /\ UNCHANGED <<inside, history, call>>

InitRoute ==
    /\ template = TplScenario(DestList)
    /\ options = [stopOnMissingFields |-> FALSE, createNewListIfNeeded |-> FALSE,
                  enableRollback |-> TRUE, delayBetweenCalls |-> Num(DefaultDelay)]
    /\ existingFields = <<>>
    /\ Fresh
    /\ history = <<>>
    /\ console = Native
    /\ req = NoRequests
    /\ call = NoCall

NextRoute ==
    \/ \E r \in Requests : Receive(r)
    \/ \E r \in Requests : Parsed(r)
    \/ \E r \in Requests : DeployLog(r)
    \/ \E r \in Requests : DeployReturns(r)
    \/ \E r \in Requests : Reported(r)

SpecRoute == InitRoute /\ [][NextRoute]_vars

(***************************************************************************)
(* C17.  When the deployments of two requests overlap in time, the logs in *)
(* the answer to each hold only lines written by that request, and once    *)
(* every request has finished the console functions are the ones of the    *)
(* runtime, installed before any request started.                          *)
(***************************************************************************)
Finished(r) == req[r].pc \in {"responded", "crashed"}

Overlapped(r, q) == r # q /\ q \in req[r].met

OwnLinesOnly(r) ==
    req[r].response # NoResponse =>
        \A k \in DOMAIN req[r].response[1].logs : req[r].response[1].logs[k].by = r

C17_OverlappingRequestsShareNothing ==
    \A r, q \in Requests :
        Overlapped(r, q) =>
            /\ OwnLinesOnly(r)
            /\ (\A p \in Requests : Finished(p) \/ req[p].pc = "idle") => console = Native

(***************************************************************************)
(* TemplateManager.validateTemplate (src/lib/template-manager.ts).  The    *)
(* template is what a client sends: any field may be missing ("" for a     *)
(* string, <<>> for an object or array that is absent, <<x>> when it is    *)
(* present).  The errors are records, in the order the code pushes them.   *)
(***************************************************************************)
\* phases of a template under validation
MaxPhases == 3
\* the longest description validateTemplate accepts
MaxDescription == 500

VError(msg, about) == [msg |-> msg, about |-> about]

\* the checks of one action of a phase
ValidateAction(phase, action, j) ==
    (IF action.name = "" THEN <<VError("Action missing name", j)>> ELSE <<>>)
      \o (IF action.descriptionLength > MaxDescription
          THEN <<VError("Action description exceeds 500 characters", action.name)>>
          ELSE <<>>)

\* keys.filter(k => k === phase.key).length > 1
IsDuplicate(phases, key) == Cardinality({k \in DOMAIN phases : phases[k].key = key}) > 1

\* the body of template.phases.forEach for the phase at index i (zero-based)
ValidatePhase(phases, i) ==
    LET phase == phases[i + 1]
    IN  (IF phase.name = "" THEN <<VError("Phase missing name", i)>> ELSE <<>>)
          \o (IF phase.key = "" THEN <<VError("Phase missing key", i)>> ELSE <<>>)
          \o (IF IsDuplicate(phases, phase.key)
              THEN <<VError("Duplicate phase key", phase.key)>> ELSE <<>>)
          \o (IF phase.descriptionLength > MaxDescription
              THEN <<VError("Phase description exceeds 500 characters", phase.name)>>
              ELSE <<>>)
          \o Concat([j \in DOMAIN phase.actions |->
                        ValidateAction(phase, phase.actions[j], j - 1)])

ValidateTemplate(tpl) ==
    LET hasDestinationId ==
            /\ tpl.destination # <<>>
            /\ \/ tpl.destination[1].list_id # ""
               \/ tpl.destination[1].folder_id # ""
               \/ tpl.destination[1].space_id # ""
        errors ==
            (IF tpl.meta.slug = "" THEN <<VError("Missing meta.slug", "")>> ELSE <<>>)
              \o (IF tpl.meta.version = "" THEN <<VError("Missing meta.version", "")>> ELSE <<>>)
              \o (IF tpl.destination = <<>>
                  THEN <<VError("Missing destination object", "")>> ELSE <<>>)
              \o (IF tpl.phases = <<>>
                  THEN <<VError("Missing or invalid phases array", "")>> ELSE <<>>)
              \o (IF ~hasDestinationId
                  THEN <<VError("Destination must have at least one ID", "")>> ELSE <<>>)
              \o (IF tpl.phases = <<>> THEN <<>>
                  ELSE Concat([k \in DOMAIN tpl.phases[1] |->
                                  ValidatePhase(tpl.phases[1], k - 1)]))
    IN  [valid |-> errors = <<>>, errors |-> errors]

\* the phases a client may send
VAction(name, len) == [name |-> name, descriptionLength |-> len]
VPhaseShapes ==
    {[descriptionLength |-> 0, actions |-> <<>>],
     [descriptionLength |-> MaxDescription + 1, actions |-> <<VAction("act", 0)>>],
     [descriptionLength |-> 0, actions |-> <<VAction("", MaxDescription + 1)>>]}
VPhases ==
    {[key |-> k, name |-> n, descriptionLength |-> sh.descriptionLength, actions |-> sh.actions] :
        k \in {"", "a", "b"}, n \in {"", "n"}, sh \in VPhaseShapes}

VPhaseArrays == UNION {[1..n -> VPhases] : n \in 0..MaxPhases}

VTemplates ==
    {[meta |-> m, destination |-> d, phases |-> <<ps>>] :
        m \in {[slug |-> "s", version |-> "1"], [slug |-> "", version |-> ""]},
        d \in {<<>>, <<[list_id |-> "l1", folder_id |-> "", space_id |-> ""]>>},
        ps \in VPhaseArrays}
      \cup {[meta |-> [slug |-> "s", version |-> "1"], destination |-> <<>>, phases |-> <<>>]}

ValidateTemplateCall ==
    /\ call.fn = "validateTemplate"
    /\ call.ret = <<>>
    /\ call' = [call EXCEPT !.ret = <<ValidateTemplate(call.arg)>>]
    /\ UNCHANGED <<inside, history, console, req>>

InitValidate ==
    /\ template = TplEmpty(DestList)
    /\ options = [stopOnMissingFields |-> FALSE, createNewListIfNeeded |-> FALSE,
                  enableRollback |-> FALSE, delayBetweenCalls |-> Num(DefaultDelay)]
    /\ existingFields = <<>>
    /\ Fresh
    /\ history = <<>>
    /\ console = Native
    /\ req = NoRequests
    /\ call \in {[fn |-> "validateTemplate", arg |-> t, ret |-> <<>>] : t \in VTemplates}

NextValidate == ValidateTemplateCall

SpecValidate == InitValidate /\ [][NextValidate]_vars

(***************************************************************************)
(* C18.  For every template in which some phase key is carried by two or   *)
(* more phases, validateTemplate returns valid = false and its errors hold *)
(* exactly one "Duplicate phase key" entry per duplicated key.             *)
(***************************************************************************)
Returned(fn) == call.fn = fn /\ call.ret # <<>>

\* the keys carried by two or more phases of the template
DuplicatedKeys(tpl) ==
    IF tpl.phases = <<>> THEN {}
    ELSE {tpl.phases[1][k].key : k \in {k \in DOMAIN tpl.phases[1] :
              \E m \in DOMAIN tpl.phases[1] : m # k /\ tpl.phases[1][m].key = tpl.phases[1][k].key}}

DuplicateEntries(errors, key) ==
    Cardinality({k \in DOMAIN errors : errors[k] = VError("Duplicate phase key", key)})

C18_OneErrorPerDuplicatedKey ==
    (Returned("validateTemplate") /\ DuplicatedKeys(call.arg) # {}) =>
        /\ ~call.ret[1].valid
        /\ \A key \in DuplicatedKeys(call.arg) : DuplicateEntries(call.ret[1].errors, key) = 1

(***************************************************************************)
(* C19.  createChecklist appends the items of a checklist in their input   *)
(* order, one append call per item, the item at zero-based position i with *)
(* orderindex i and resolved = false: at any time the append calls issued  *)
(* for a checklist are the first items of its list, and they are all of    *)
(* them once createChecklist has returned.                                 *)
(***************************************************************************)
IsAppend(e) == e.op = "addChecklistItem"

AppendIdx == {i \in DOMAIN trace : IsAppend(trace[i])}

\* the task the checklist of the append call at index i was created on: the
\* target of the latest create-checklist call before it
TaskOfAppend(i) ==
    LET made == {j \in 1..(i - 1) : trace[j].op = "createChecklist"}
    IN  trace[CHOOSE j \in made : \A m \in made : m <= j].target

\* the items the template lists for the checklist of that task
ListedItems(i) == ItemAt(template, ItemOfTask(TaskOfAppend(i))).checklist[1].items

\* the position of the append call at index i among those of its checklist
AppendPosition(i) ==
    Cardinality({j \in AppendIdx : j <= i /\ trace[j].target = trace[i].target})

C19_ChecklistItemsInOrder ==
    /\ \A i \in AppendIdx :
          /\ AppendPosition(i) <= Len(ListedItems(i))
          /\ trace[i].name = ListedItems(i)[AppendPosition(i)]
          /\ trace[i].orderindex = AppendPosition(i) - 1
          /\ trace[i].resolved = FALSE
    /\ \A k \in DOMAIN result.checklists :
          LET appends == {i \in AppendIdx : trace[i].target = result.checklists[k].id}
          IN  /\ appends # {}
              /\ \A i \in appends : Cardinality(appends) = Len(ListedItems(i))

\* a checklist of MaxItems items was created in full
C19_Witness ==
    \E k \in DOMAIN result.checklists :
        /\ result.checklists[k].items = MaxItems
        /\ MaxItems >= 2
        /\ \E i \in AppendIdx :
              /\ trace[i].target = result.checklists[k].id
              /\ trace[i].orderindex = MaxItems - 1
              /\ trace[i].name = ItemName(MaxItems)

(***************************************************************************)
(* C20.  Create-task calls go out in depth-first template order: phases in *)
(* array order, the actions of a phase in declared order, the sub-actions  *)
(* of an action in declared order right after that action and before the   *)
(* next one; result.phases and result.actions list the created tasks in    *)
(* the order of their creation.                                            *)
(***************************************************************************)
\* path p comes before path q in the depth-first (pre-order) walk
RECURSIVE PathBefore(_, _)
PathBefore(p, q) ==
    IF p = <<>> THEN q # <<>>
    ELSE IF q = <<>> THEN FALSE
    ELSE IF Head(p) = Head(q) THEN PathBefore(Tail(p), Tail(q))
    ELSE Head(p) < Head(q)

\* the paths the three loops walk
WalkedPaths(tpl) == PhasePaths(tpl) \cup ActionPaths(tpl) \cup SubPaths(tpl)

\* the IDs of the created tasks whose path satisfies the test, in trace order
RECURSIVE CreatedIdsOf(_, _)
CreatedIdsOf(tr, phaseLevel) ==
    IF tr = <<>> THEN <<>>
    ELSE (IF IsCreated(Head(tr)) /\ ((Len(Head(tr).item) = 1) = phaseLevel)
          THEN <<Head(tr).id>> ELSE <<>>)
         \o CreatedIdsOf(Tail(tr), phaseLevel)

IdsOf(tasks) == [k \in DOMAIN tasks |-> tasks[k].id]

C20_DepthFirstCreationOrder ==
    /\ \A i, j \in CreateIdx : i < j => PathBefore(trace[i].item, trace[j].item)
    /\ \A i \in CreateIdx :
          /\ trace[i].item \in WalkedPaths(template)
          /\ Len(trace[i].item) > 1 =>
                \E j \in CreateIdx :
                    /\ j < i
                    /\ IsCreated(trace[j])
                    /\ trace[j].item = SubSeq(trace[i].item, 1, Len(trace[i].item) - 1)
    /\ (Done /\ ~anyFailed /\ result.phases # <<>>) =>
          \A q \in WalkedPaths(template) : HasCreateCall(q)
    /\ IdsOf(result.phases) = CreatedIdsOf(trace, TRUE)
    /\ IdsOf(result.actions) = CreatedIdsOf(trace, FALSE)

\* a finished run created the second sub-action of an action and, after it,
\* the next action of the same phase
C20_Witness ==
    /\ Done
    /\ \E i, j \in CreateIdx :
          /\ i < j
          /\ IsCreated(trace[i]) /\ IsCreated(trace[j])
          /\ Len(trace[i].item) = 3 /\ Len(trace[j].item) = 2
          /\ trace[i].item[3] = 2
          /\ trace[j].item[2] = trace[i].item[2] + 1
    /\ Len(result.actions) >= 4

(***************************************************************************)
(* C21.  Within one run no phase, action or sub-action has its create-task *)
(* call issued more than once, whether the first call succeeded, failed or *)
(* was answered with HTTP 429.                                             *)
(***************************************************************************)
C21_NoItemCreatedTwice ==
    \A i, j \in CreateIdx : trace[i].item = trace[j].item => i = j

\* a finished run in which one create-task call was answered with 429,
\* another failed otherwise and a third one succeeded
C21_Witness ==
    /\ Done
    /\ \E i, j, k \in CreateIdx :
          /\ trace[i].outcome = "429"
          /\ trace[j].outcome = "err"
          /\ trace[k].outcome = "ok"

(***************************************************************************)
(* The task spec deployTemplateSmartly builds for a phase: its tags and    *)
(* its priority, computed from the phase and template.defaults.            *)
(***************************************************************************)
MaxTags == 2
MaxPriority == 4
FallbackPriority == 3

\* an optional number: absent, or present with a value
NoPriority == [set |-> FALSE, value |-> 0]
Priority(n) == [set |-> TRUE, value |-> n]

\* JavaScript truthiness of an optional number: undefined and 0 are falsy
Truthy(p) == p.set /\ p.value # 0

\* a || b on optional numbers
OrElse(a, b) == IF Truthy(a) THEN a ELSE b

\* phase.priority || template.defaults?.priority || 3
PhasePriority(phase, defaults) ==
    OrElse(OrElse(phase.priority, defaults.priority), Priority(FallbackPriority)).value

\* [...(template.defaults?.tags || []), ...(phase.tags || [])]; an absent
\* tags array is the empty sequence
PhaseTags(phase, defaults) == defaults.tags \o phase.tags

\* the two fields of the task spec handed to createTask for a phase
PhaseTaskSpec(arg) ==
    [priority |-> PhasePriority(arg.phase, arg.defaults),
     tags |-> PhaseTags(arg.phase, arg.defaults)]

\* the inputs: tag arrays of up to MaxTags tags, priorities absent or 0..MaxPriority
TagNames == {"x", "y"}
TagArrays == UNION {[1..n -> TagNames] : n \in 0..MaxTags}
Priorities == {NoPriority} \cup {Priority(n) : n \in 0..MaxPriority}
TaggedItems == {[tags |-> t, priority |-> p] : t \in TagArrays, p \in Priorities}

\* the variables of deployTemplateSmartly and of the endpoint at rest
Idle ==
    /\ template = TplEmpty(DestList)
    /\ options = [stopOnMissingFields |-> FALSE, createNewListIfNeeded |-> FALSE,
                  enableRollback |-> FALSE, delayBetweenCalls |-> Num(DefaultDelay)]
    /\ existingFields = <<>>
    /\ Fresh
    /\ history = <<>>
    /\ console = Native
    /\ req = NoRequests

PhaseTaskSpecCall ==
    /\ call.fn = "phaseTaskSpec"
    /\ call.ret = <<>>
    /\ call' = [call EXCEPT !.ret = <<PhaseTaskSpec(call.arg)>>]
    /\ UNCHANGED <<inside, history, console, req>>

InitPhaseSpec ==
    /\ Idle
    /\ call \in {[fn |-> "phaseTaskSpec", arg |-> [phase |-> p, defaults |-> d], ret |-> <<>>] :
                   p \in TaggedItems, d \in TaggedItems}

NextPhaseSpec == PhaseTaskSpecCall

SpecPhaseSpec == InitPhaseSpec /\ [][NextPhaseSpec]_vars

(***************************************************************************)
(* C22.  The payload of a phase task carries as tags the union of the      *)
(* template default tags and the phase's own tags - each distinct tag      *)
(* once, defaults first, order preserved - and as priority the phase's     *)
(* priority if set, otherwise the default priority if set, otherwise 3.    *)
(***************************************************************************)
UnionInOrder(a, b) == Dedup(a \o b)

PriorityCascade(phase, defaults) ==
    IF phase.priority.set THEN phase.priority.value
    ELSE IF defaults.priority.set THEN defaults.priority.value
    ELSE 3

C22_PhaseTagsAndPriority ==
    Returned("phaseTaskSpec") =>
        /\ call.ret[1].tags = UnionInOrder(call.arg.defaults.tags, call.arg.phase.tags)
        /\ call.ret[1].priority = PriorityCascade(call.arg.phase, call.arg.defaults)

(***************************************************************************)
(* The delays deployTemplateSmartly awaits before its create-task calls,   *)
(* as a function of the options argument the caller gives: none at all, or *)
(* an object with or without delayBetweenCalls.                            *)
(***************************************************************************)
MaxDelay == 60

\* the options parameter: the default object stands in for an omitted argument
DefaultOptions == [delayBetweenCalls |-> Num(DefaultDelay)]
NoOptions == [given |-> FALSE, delayBetweenCalls |-> NumUndefined]
GivenOptions(d) == [given |-> TRUE, delayBetweenCalls |-> d]
EffectiveOptions(arg) == IF arg.given THEN arg ELSE DefaultOptions

DelaysOf(arg) ==
    LET d == EffectiveOptions(arg).delayBetweenCalls
    IN  [phase |-> PhaseDelayOf(d), action |-> ActionDelayOf(d), sub |-> SubDelayOf(d)]

\* the values of delayBetweenCalls the caller may give
DelayChoices == {NumUndefined} \cup {Num(n) : n \in 0..MaxDelay \cup {DefaultDelay}}
OptionChoices == {NoOptions} \cup {GivenOptions(d) : d \in DelayChoices}

DelaysCall ==
    /\ call.fn = "delays"
    /\ call.ret = <<>>
    /\ call' = [call EXCEPT !.ret = <<DelaysOf(call.arg)>>]
    /\ UNCHANGED <<inside, history, console, req>>

InitDelays ==
    /\ Idle
    /\ call \in {[fn |-> "delays", arg |-> o, ret |-> <<>>] : o \in OptionChoices}

NextDelays == DelaysCall

SpecDelays == InitDelays /\ [][NextDelays]_vars

(***************************************************************************)
(* C23.  The delay awaited before a phase create-task call is              *)
(* delayBetweenCalls ms, before an action call floor(delayBetweenCalls/2)  *)
(* ms and before a sub-action call floor(delayBetweenCalls/3) ms; when the *)
(* caller gives no delayBetweenCalls the base is 500 ms, which gives       *)
(* delays of 500, 250 and 166 ms.                                          *)
(***************************************************************************)
BaseDelay(o) ==
    IF o.given /\ o.delayBetweenCalls.kind = "number" THEN o.delayBetweenCalls.value ELSE 500

C23_DelaysFollowTheBase ==
    Returned("delays") =>
        LET base == BaseDelay(call.arg)
        IN  /\ call.ret[1].phase = base
            /\ call.ret[1].action = base \div 2
            /\ call.ret[1].sub = base \div 3

(***************************************************************************)
(* C24.  When a new list is created, under a folder or directly under a    *)
(* space, a rejection of the create-list call that carries the three       *)
(* statuses makes createNewList create the list bare and then add the      *)
(* three statuses one at a time: each of the three status-add calls is     *)
(* attempted and the ID of the new list is returned, whatever the outcome  *)
(* of the other status-add calls.                                          *)
(***************************************************************************)
\* a create-list call with the three statuses was rejected
StatusesRejected ==
    \E i \in CreateListIdx : trace[i].statuses /\ trace[i].outcome # "ok"

\* nothing else went wrong while the list was created: the folder the space
\* asked for and the bare list were created
BareCreationWorks ==
    \A i \in DOMAIN trace :
        /\ trace[i].op = "createFolder" => trace[i].outcome = "ok"
        /\ (trace[i].op = "createList" /\ ~trace[i].statuses) => trace[i].outcome = "ok"

BareListCreated == \E i \in CreateListIdx : ~trace[i].statuses

StatusesAttempted ==
    {trace[i].status : i \in {j \in DOMAIN trace : trace[j].op = "addStatus"}}

C24_BareListThenEveryStatus ==
    (Done /\ options.createNewListIfNeeded /\ StatusesRejected /\ BareCreationWorks) =>
        /\ BareListCreated
        /\ StatusesAttempted = Range(StatusNames)
        /\ result.listId = NewListId

(***************************************************************************)
(* A run in which every remote call is answered - with a result or with an *)
(* error - and every continuation is scheduled: each step of the function  *)
(* that can be taken eventually is.                                        *)
(***************************************************************************)
SpecLive == Init /\ [][Next]_vars /\ WF_vars(Next)

EverythingDeleted ==
    /\ rb.runs > 0
    /\ pc # "rollback"
    /\ createdTaskIds # <<>>
    /\ rb.deletedCount = Len(createdTaskIds)

ListedIds(res) == Range(IdsOf(res.phases)) \cup Range(IdsOf(res.actions))

C26_ResultListsNoDeletedTask ==
    (Done /\ EverythingDeleted) => ListedIds(result) \cap Range(createdTaskIds) = {}

(***************************************************************************)
(* C27.  Each failed create-task call adds exactly one entry to            *)
(* result.errors, with or without enableRollback: on return the number of  *)
(* entries the catch blocks of the deploy loops have pushed equals the     *)
(* number of create-task calls that failed.                                *)
(***************************************************************************)
LoopErrors(res) == {k \in DOMAIN res.errors : res.errors[k].kind \in {"phase", "action", "sub"}}

C27_OneErrorPerFailedCreate ==
    Done => Cardinality(LoopErrors(result)) = Cardinality(FailedIdx)

(***************************************************************************)
(* C28.  An action or sub-action whose create-task call succeeded is never *)
(* reported in result.errors as failed to create, even when creating its   *)
(* checklist or appending one of its checklist items fails afterwards.     *)
(***************************************************************************)
WasCreated(item) == \E i \in CreateIdx : IsCreated(trace[i]) /\ trace[i].item = item

C28_CreatedItemsAreNotReportedFailed ==
    \A k \in DOMAIN result.errors :
        result.errors[k].kind \in {"action", "sub"} => ~WasCreated(result.errors[k].item)

(***************************************************************************)
(* mergeAndFormatCustomFields / formatCustomFields: the custom_fields      *)
(* payload of a task.  An object of custom fields is the sequence of its   *)
(* keys; the entry of the payload built for a key carries the key in place *)
(* of the value given under it.                                            *)
(***************************************************************************)
\* { ...defaults, ...specific }: the keys of defaults, then the new keys of specific
MergeFields(defaults, specific) == Dedup(defaults \o specific)

RECURSIVE LowerKeys(_)
\* fieldMapLower[name.toLowerCase().trim()] = id for each entry of fieldMap
LowerKeys(fieldMap) ==
    IF fieldMap = <<>> THEN <<>>
    ELSE LET e == fieldMap[Len(fieldMap)]
         IN  MapSet(LowerKeys(SubSeq(fieldMap, 1, Len(fieldMap) - 1)), LowerTrim(e.k), e.v)

\* fieldMap[name] || fieldMapLower[name.toLowerCase().trim()]
LookupFieldId(fieldMap, name) ==
    IF MapGet(fieldMap, name) # "" THEN MapGet(fieldMap, name)
    ELSE MapGet(LowerKeys(fieldMap), LowerTrim(name))

RECURSIVE FormatCustomFields(_, _)
\* one { id, value } per key that resolves to a field ID, in key order
FormatCustomFields(fields, fieldMap) ==
    IF fields = <<>> THEN <<>>
    ELSE LET name == fields[Len(fields)]
             before == FormatCustomFields(SubSeq(fields, 1, Len(fields) - 1), fieldMap)
             fieldId == LookupFieldId(fieldMap, name)
         IN  IF fieldId = "" THEN before
             ELSE Append(before, [id |-> fieldId, value |-> name])

MergeAndFormatCustomFields(defaults, specific, fieldMap) ==
    FormatCustomFields(MergeFields(defaults, specific), fieldMap)

\* the custom_fields of the payload of the first phase of a template deployed
\* to a list with the given fields
PhaseCustomFields(arg) ==
    MergeAndFormatCustomFields(arg.template.defaults.custom_fields,
                               arg.template.phases[1].custom_fields,
                               ValidateCustomFields(arg.existing, arg.template).fieldMap)

PhaseCustomFieldsCall ==
    /\ call.fn = "phaseCustomFields"
    /\ call.ret = <<>>
    /\ call' = [call EXCEPT !.ret = <<PhaseCustomFields(call.arg)>>]
    /\ UNCHANGED <<inside, history, console, req>>

InitMerge ==
    /\ Idle
    /\ call \in {[fn |-> "phaseCustomFields", arg |-> [template |-> t, existing |-> e],
                  ret |-> <<>>] : t \in FieldTemplates, e \in ExistingFieldSeqs}

NextMerge == PhaseCustomFieldsCall

SpecMerge == InitMerge /\ [][NextMerge]_vars

(***************************************************************************)
(* C29.  The custom_fields payload of a create-task call holds at most one *)
(* entry per destination field ID, for every combination of default and    *)
(* phase fields, also when two names differ only in letter case or         *)
(* surrounding spaces.                                                     *)
(***************************************************************************)
C29_OneEntryPerFieldId ==
    Returned("phaseCustomFields") =>
        \A i, j \in DOMAIN call.ret[1] : call.ret[1][i].id = call.ret[1][j].id => i = j

(***************************************************************************)
(* C30.  After the deploy endpoint has dealt with a request, console.log,  *)
(* console.error and console.warn are callable functions equal to those    *)
(* installed before the request, on every path through the handler,        *)
(* including the error path taken when the request fails before            *)
(* LogCapture.start() was called.                                          *)
(***************************************************************************)
\* the requests the endpoint has been called for, and those it is done with
Called == {r \in Requests : req[r].pc # "idle"}
Over == {r \in Requests : req[r].pc \in {"responded", "crashed"}}

\* one request was made, nothing else touched the console, and the handler
\* is done with it
C30_ConsoleRestoredOnEveryPath ==
    (Cardinality(Called) = 1 /\ Over = Called) =>
        /\ console = Native
        /\ \A r \in Over : req[r].pc = "responded"

=============================================================================
